---- MODULE Spec2Model ----
(***************************************************************************)
(* A model of the CBOR decoder of internal/cbor (decode.go) and of the     *)
(* encoder it is tested against (encode_test.go).                          *)
(*                                                                         *)
(* CBOR data is a sequence of bytes (0..255) and the decoder is a cursor   *)
(* over it.  Every method of the Go decoder is an operator that takes the  *)
(* decoder record d = [data, off, dm] and returns the updated record next  *)
(* to its results.  Go values are records [t, n, s, e]: t the Go type      *)
(* name, n a flag or sign, s a byte sequence, e the sequence of children.  *)
(* 64-bit and arbitrary-precision integers are big-endian byte magnitudes  *)
(* without leading zeros, so that no value is ever truncated by the        *)
(* checker's own integer width.                                            *)
(***************************************************************************)
EXTENDS Integers, Sequences, FiniteSets, TLC

(***************************************************************************)
(* Magnitudes: mathematical naturals as big-endian byte sequences.         *)
(***************************************************************************)
RECURSIVE MagNorm(_)
MagNorm(s) == IF s = <<>> THEN <<>>
              ELSE IF Head(s) = 0 THEN MagNorm(Tail(s)) ELSE s

RECURSIVE MagOfInt(_)
MagOfInt(n) == IF n = 0 THEN <<>> ELSE Append(MagOfInt(n \div 256), n % 256)

RECURSIVE IntOfMag(_)
IntOfMag(m) == IF m = <<>> THEN 0
               ELSE IntOfMag(SubSeq(m, 1, Len(m) - 1)) * 256 + m[Len(m)]

RECURSIVE LexLE(_, _)
\* bytes.Compare(a, b) <= 0
LexLE(a, b) == IF a = <<>> THEN TRUE
               ELSE IF b = <<>> THEN FALSE
               ELSE IF Head(a) < Head(b) THEN TRUE
               ELSE IF Head(a) > Head(b) THEN FALSE
               ELSE LexLE(Tail(a), Tail(b))

MagLE(a, b) == \/ Len(a) < Len(b)
               \/ Len(a) = Len(b) /\ LexLE(a, b)

MagLT(a, b) == MagLE(a, b) /\ a # b

RECURSIVE MagInc(_)
MagInc(m) == IF m = <<>> THEN <<1>>
             ELSE IF m[Len(m)] < 255
                  THEN Append(SubSeq(m, 1, Len(m) - 1), m[Len(m)] + 1)
                  ELSE Append(MagInc(SubSeq(m, 1, Len(m) - 1)), 0)

RECURSIVE Zeros(_)
Zeros(k) == IF k = 0 THEN <<>> ELSE Append(Zeros(k - 1), 0)

\* the magnitude padded with leading zeros to k bytes
Pad(m, k) == Zeros(k - Len(m)) \o m

RECURSIVE Pow2(_)
Pow2(k) == IF k = 0 THEN 1 ELSE 2 * Pow2(k - 1)

\* 2^k as a magnitude
Pow2Mag(k) == <<Pow2(k % 8)>> \o Zeros(k \div 8)

\* 2^k - 1 as a magnitude
Pow2Less1Mag(k) == MagNorm(<<Pow2(k % 8) - 1>> \o [i \in 1..(k \div 8) |-> 255])

\* 2^64 - m for 0 < m <= 2^64: the two's complement of an 8-byte word
TwosComplement64(m) == MagInc(MagNorm([i \in 1..8 |-> 255 - Pad(m, 8)[i]]))

(***************************************************************************)
(* The decoder's cursor: decode.go, type decoder and the head readers.     *)
(***************************************************************************)
cborTypePositiveInt == 0
cborTypeNegativeInt == 32
cborTypeByteString == 64
cborTypeTextString == 96
cborTypeArray == 128
cborTypeMap == 160
cborTypeTag == 192
cborTypePrimitives == 224

selfDescribedCBORTagNum == <<217, 247>>

\* decoder{data: data, dm: dm}
decoder(data, dm) == [data |-> data, off |-> 1, dm |-> dm]

\* the byte at the cursor, d.data[d.off]
cur(d) == d.data[d.off]

adv(d, k) == [d EXCEPT !.off = d.off + k]

\* the number of bytes that follow the initial byte in a head
argLen(ai) == CASE ai = 24 -> 1 [] ai = 25 -> 2 [] ai = 26 -> 4 [] ai = 27 -> 8 [] OTHER -> 0

getHead(d) ==
    LET head(t, ai, k) ==
          [t |-> t, ai |-> ai,
           val |-> IF k = 0 THEN MagOfInt(ai) ELSE MagNorm(SubSeq(d.data, d.off + 1, d.off + k)),
           d |-> adv(d, 1 + k)]
    IN  head((cur(d) \div 32) * 32, cur(d) % 32, argLen(cur(d) % 32))

nextCBORType(d) == (cur(d) \div 32) * 32

nextCBORNil(d) == cur(d) = 246 \/ cur(d) = 247

\* foundBreak consumes the break marker when it is there
foundBreak(d) == IF cur(d) = 255 THEN [found |-> TRUE, d |-> adv(d, 1)]
                 ELSE [found |-> FALSE, d |-> d]

RECURSIVE skip(_)
RECURSIVE skipUntilBreak(_)
RECURSIVE skipItems(_, _)

skipUntilBreak(d) ==
    LET from(next) == IF next.off > d.off THEN skipUntilBreak(next) ELSE next
    IN IF cur(d) = 255 THEN adv(d, 1) ELSE from(skip(d))

skipItems(d, k) ==
    LET from(next) == IF next.off > d.off THEN skipItems(next, k - 1) ELSE next
    IN IF k = 0 THEN d ELSE from(skip(d))

skip(d) ==
    LET item(h) ==
          IF h.ai = 31 /\ h.t \in {cborTypeByteString, cborTypeTextString, cborTypeArray, cborTypeMap}
          THEN skipUntilBreak(h.d)
          ELSE CASE h.t \in {cborTypeByteString, cborTypeTextString} -> adv(h.d, IntOfMag(h.val))
                 [] h.t = cborTypeArray -> skipItems(h.d, IntOfMag(h.val))
                 [] h.t = cborTypeMap   -> skipItems(h.d, IntOfMag(h.val) * 2)
                 [] h.t = cborTypeTag   -> skip(h.d)
                 [] OTHER               -> h.d
    IN item(getHead(d))

RECURSIVE countUntilBreak(_, _)
countUntilBreak(d, i) == IF foundBreak(d).found THEN i ELSE countUntilBreak(skip(d), i + 1)

\* the cursor is restored: only the count is returned
numOfItemsUntilBreak(d) == countUntilBreak(d, 0)

(***************************************************************************)
(* Struct types in the terms of their declaration, for the types whose     *)
(* fields the field resolver works out: each declared field with its name, *)
(* its type, whether it is embedded and the name its tag gives it (<<>>    *)
(* without a tag).  A name is a sequence of bytes.                         *)
(***************************************************************************)
SF(name, typ, anonymous, tag) == [name |-> name, typ |-> typ, anonymous |-> anonymous, tag |-> tag]

structFields(tn) ==
    CASE \* TestAnonymousFields1: T1{x, X int}, T2{x, X int}, T{T1; T2}
         tn = "AF1.T1" -> <<SF(<<120>>, "int", FALSE, <<>>), SF(<<88>>, "int", FALSE, <<>>)>>
      [] tn = "AF1.T2" -> <<SF(<<120>>, "int", FALSE, <<>>), SF(<<88>>, "int", FALSE, <<>>)>>
      [] tn = "AF1.T"  -> <<SF(<<84, 49>>, "AF1.T1", TRUE, <<>>), SF(<<84, 50>>, "AF1.T2", TRUE, <<>>)>>
      \* TestAnonymousFields2: T{T1; T2; x, X int}
      [] tn = "AF2.T"  -> <<SF(<<84, 49>>, "AF1.T1", TRUE, <<>>), SF(<<84, 50>>, "AF1.T2", TRUE, <<>>),
                            SF(<<120>>, "int", FALSE, <<>>), SF(<<88>>, "int", FALSE, <<>>)>>
      \* TestAnonymousFields10: t3{Z int}, t1{X int; t3}, t2{Y int; t3}, T{t1; t2}
      [] tn = "AF10.t3" -> <<SF(<<90>>, "int", FALSE, <<>>)>>
      [] tn = "AF10.t1" -> <<SF(<<88>>, "int", FALSE, <<>>), SF(<<116, 51>>, "AF10.t3", TRUE, <<>>)>>
      [] tn = "AF10.t2" -> <<SF(<<89>>, "int", FALSE, <<>>), SF(<<116, 51>>, "AF10.t3", TRUE, <<>>)>>
      [] tn = "AF10.T"  -> <<SF(<<116, 49>>, "AF10.t1", TRUE, <<>>), SF(<<116, 50>>, "AF10.t2", TRUE, <<>>)>>
      \* TestAnonymousFields11: t2{X int}, t1{Y int; t2}, T{t1; t2}
      [] tn = "AF11.t2" -> <<SF(<<88>>, "int", FALSE, <<>>)>>
      [] tn = "AF11.t1" -> <<SF(<<89>>, "int", FALSE, <<>>), SF(<<116, 50>>, "AF11.t2", TRUE, <<>>)>>
      [] tn = "AF11.T"  -> <<SF(<<116, 49>>, "AF11.t1", TRUE, <<>>), SF(<<116, 50>>, "AF11.t2", TRUE, <<>>)>>
      \* TestTaggedField: T1{S string}, T2{X string "S"}, T{T1; T2}
      [] tn = "TF.T1"  -> <<SF(<<83>>, "string", FALSE, <<>>)>>
      [] tn = "TF.T2"  -> <<SF(<<88>>, "string", FALSE, <<83>>)>>
      [] tn = "TF.T"   -> <<SF(<<84, 49>>, "TF.T1", TRUE, <<>>), SF(<<84, 50>>, "TF.T2", TRUE, <<>>)>>
      \* TestDuplicatedFields: T1{S string}, T2{S string}, T3{X string "S"},
      \* T4{T1; T3}, T{T1; T2; T4}
      [] tn = "DF.T2"  -> <<SF(<<83>>, "string", FALSE, <<>>)>>
      [] tn = "DF.T4"  -> <<SF(<<84, 49>>, "TF.T1", TRUE, <<>>), SF(<<84, 51>>, "TF.T2", TRUE, <<>>)>>
      [] tn = "DF.T"   -> <<SF(<<84, 49>>, "TF.T1", TRUE, <<>>), SF(<<84, 50>>, "DF.T2", TRUE, <<>>),
                            SF(<<84, 52>>, "DF.T4", TRUE, <<>>)>>

DeclaredTypes ==
    {"AF1.T1", "AF1.T2", "AF1.T", "AF2.T", "AF10.t3", "AF10.t1", "AF10.t2", "AF10.T",
     "AF11.t2", "AF11.t1", "AF11.T", "TF.T1", "TF.T2", "TF.T", "DF.T2", "DF.T4", "DF.T"}

\* a name is exported when it starts with an upper-case letter
IsExported(name) == name[1] >= 65 /\ name[1] <= 90


(***************************************************************************)
(* Go types.  goType is the reflect.Type of a type name: its kind, the     *)
(* width of an integer kind, the element and key types, the length of an   *)
(* array, and for a struct the Go fields in declaration order (layout),    *)
(* each with its type and whether reflect can set it (exported).           *)
(***************************************************************************)
GT(kind, bits, elem, key, len, layout) ==
    [kind |-> kind, bits |-> bits, elem |-> elem, key |-> key, len |-> len, layout |-> layout]

basicType(kind, bits) == GT(kind, bits, "", "", 0, <<>>)
structType(layout) == GT("struct", 0, "", "", 0, layout)
GF(typ, canSet) == [typ |-> typ, canSet |-> canSet]

layoutOf(decl) == [i \in 1..Len(decl) |-> GF(decl[i].typ, IsExported(decl[i].name))]

goType(tn) ==
    CASE tn = "int"     -> basicType("int", 64)
      [] tn = "int8"    -> basicType("int", 8)
      [] tn = "int32"   -> basicType("int", 32)
      [] tn = "int64"   -> basicType("int", 64)
      [] tn = "uint8"   -> basicType("uint", 8)
      [] tn = "uint32"  -> basicType("uint", 32)
      [] tn = "uint64"  -> basicType("uint", 64)
      [] tn = "bool"    -> basicType("bool", 0)
      [] tn = "string"  -> basicType("string", 0)
      [] tn = "any"     -> basicType("interface", 0)
      [] tn = "big.Int" -> basicType("struct", 0)
      [] tn = "Tag"     -> basicType("struct", 0)
      [] tn = "ByteString" -> basicType("string", 0)
      [] tn = "time.Time" -> basicType("struct", 0)
      [] tn = "float64" -> basicType("float", 64)
      [] tn = "struct{}" -> structType(<<>>)
      \* TestMarshalStructKeyAsIntNumError: T1{F1 int `cbor:"2.0,keyasint"`}
      [] tn = "KN.T1" -> structType(<<GF("int", TRUE)>>)
      [] tn = "*KN.T1" -> GT("ptr", 0, "KN.T1", "", 0, <<>>)
      [] tn = "[]KN.T1" -> GT("slice", 0, "KN.T1", "", 0, <<>>)
      [] tn = "*[]KN.T1" -> GT("ptr", 0, "[]KN.T1", "", 0, <<>>)
      \* a type with the method UnmarshalCBOR on its pointer, which records
      \* the calls of the method
      [] tn = "Recorder" -> basicType("struct", 0)
      [] tn = "*Recorder" -> GT("ptr", 0, "Recorder", "", 0, <<>>)
      [] tn = "**Recorder" -> GT("ptr", 0, "*Recorder", "", 0, <<>>)
      [] tn = "[]Recorder" -> GT("slice", 0, "Recorder", "", 0, <<>>)
      [] tn = "*[]Recorder" -> GT("ptr", 0, "[]Recorder", "", 0, <<>>)
      [] tn = "[]*Recorder" -> GT("slice", 0, "*Recorder", "", 0, <<>>)
      [] tn = "*[]*Recorder" -> GT("ptr", 0, "[]*Recorder", "", 0, <<>>)
      [] tn = "[]byte"  -> GT("slice", 0, "uint8", "", 0, <<>>)
      [] tn = "[]int"   -> GT("slice", 0, "int", "", 0, <<>>)
      [] tn = "[]uint8" -> GT("slice", 0, "uint8", "", 0, <<>>)
      [] tn = "[]any"   -> GT("slice", 0, "any", "", 0, <<>>)
      [] tn = "[]*int"  -> GT("slice", 0, "*int", "", 0, <<>>)
      [] tn = "[2]uint8" -> GT("array", 0, "uint8", "", 2, <<>>)
      [] tn = "[2]int"  -> GT("array", 0, "int", "", 2, <<>>)
      [] tn = "[1]int"  -> GT("array", 0, "int", "", 1, <<>>)
      [] tn = "map[any]bool"     -> GT("map", 0, "bool", "any", 0, <<>>)
      [] tn = "*time.Time" -> GT("ptr", 0, "time.Time", "", 0, <<>>)
      [] tn = "*Tag"    -> GT("ptr", 0, "Tag", "", 0, <<>>)
      [] tn = "*TS"     -> GT("ptr", 0, "TS", "", 0, <<>>)
      [] tn = "*[]int"  -> GT("ptr", 0, "[]int", "", 0, <<>>)
      [] tn = "*[]uint8" -> GT("ptr", 0, "[]uint8", "", 0, <<>>)
      [] tn = "*[2]int" -> GT("ptr", 0, "[2]int", "", 0, <<>>)
      [] tn = "*map[string]uint8" -> GT("ptr", 0, "map[string]uint8", "", 0, <<>>)
      [] tn = "*map[int]int" -> GT("ptr", 0, "map[int]int", "", 0, <<>>)
      [] tn = "*map[any]any" -> GT("ptr", 0, "map[any]any", "", 0, <<>>)
      [] tn = "*map[any]bool" -> GT("ptr", 0, "map[any]bool", "", 0, <<>>)
      [] tn = "*TToArray" -> GT("ptr", 0, "TToArray", "", 0, <<>>)
      [] tn = "*TKeyAsInt" -> GT("ptr", 0, "TKeyAsInt", "", 0, <<>>)
      [] tn = "*TSort"  -> GT("ptr", 0, "TSort", "", 0, <<>>)
      [] tn = "*TSortR" -> GT("ptr", 0, "TSortR", "", 0, <<>>)
      [] tn = "*T8"     -> GT("ptr", 0, "T8", "", 0, <<>>)
      [] tn = "*T8A"    -> GT("ptr", 0, "T8A", "", 0, <<>>)
      [] tn = "*string" -> GT("ptr", 0, "string", "", 0, <<>>)
      [] tn = "*uint8"  -> GT("ptr", 0, "uint8", "", 0, <<>>)
      [] tn = "*uint64" -> GT("ptr", 0, "uint64", "", 0, <<>>)
      [] tn = "*int64"  -> GT("ptr", 0, "int64", "", 0, <<>>)
      [] tn = "*int8"   -> GT("ptr", 0, "int8", "", 0, <<>>)
      [] tn = "*big.Int" -> GT("ptr", 0, "big.Int", "", 0, <<>>)
      [] tn = "*int32"  -> GT("ptr", 0, "int32", "", 0, <<>>)
      [] tn = "*uint32" -> GT("ptr", 0, "uint32", "", 0, <<>>)
      [] tn = "*[]byte" -> GT("ptr", 0, "[]byte", "", 0, <<>>)
      [] tn = "**any"   -> GT("ptr", 0, "*any", "", 0, <<>>)
      [] tn = "*[]any"  -> GT("ptr", 0, "[]any", "", 0, <<>>)
      [] tn = "**time.Time" -> GT("ptr", 0, "*time.Time", "", 0, <<>>)
      [] tn = "**Tag" -> GT("ptr", 0, "*Tag", "", 0, <<>>)
      [] tn = "map[string]uint8" -> GT("map", 0, "uint8", "string", 0, <<>>)
      [] tn = "map[int]int"      -> GT("map", 0, "int", "int", 0, <<>>)
      [] tn = "map[any]any"      -> GT("map", 0, "any", "any", 0, <<>>)
      [] tn = "*int"    -> GT("ptr", 0, "int", "", 0, <<>>)
      [] tn = "**int"   -> GT("ptr", 0, "*int", "", 0, <<>>)
      [] tn = "*any"    -> GT("ptr", 0, "any", "", 0, <<>>)
      [] tn = "*Node"   -> GT("ptr", 0, "Node", "", 0, <<>>)
      [] tn = "*T2"     -> GT("ptr", 0, "T2", "", 0, <<>>)
      [] tn = "*t1"     -> GT("ptr", 0, "t1", "", 0, <<>>)
      [] tn = "*U2"     -> GT("ptr", 0, "U2", "", 0, <<>>)
      [] tn = "*AF1.T"  -> GT("ptr", 0, "AF1.T", "", 0, <<>>)
      [] tn = "*AF2.T"  -> GT("ptr", 0, "AF2.T", "", 0, <<>>)
      [] tn = "*AF10.T" -> GT("ptr", 0, "AF10.T", "", 0, <<>>)
      [] tn = "*AF11.T" -> GT("ptr", 0, "AF11.T", "", 0, <<>>)
      [] tn = "*TF.T"   -> GT("ptr", 0, "TF.T", "", 0, <<>>)
      [] tn = "*DF.T"   -> GT("ptr", 0, "DF.T", "", 0, <<>>)
      \* the types of structFields: reflect can set the exported fields
      [] tn \in DeclaredTypes -> structType(layoutOf(structFields(tn)))
      \* TestCyclicDataStructure: Node{V int "v"; N *Node "n,omitempty"}
      [] tn = "Node"    -> structType(<<GF("int", TRUE), GF("*Node", TRUE)>>)
      \* TestMarshalUnmarshalStructKeyAsInt: T{F1, F2, F3 int}
      [] tn = "TKeyAsInt" -> structType(<<GF("int", TRUE), GF("int", TRUE), GF("int", TRUE)>>)
      \* TestMarshalUnmarshalStructToArray: T1{M}, T2{N, O}, T{_; A; B T1; T1; *T2}
      [] tn = "T1"      -> structType(<<GF("int", TRUE)>>)
      [] tn = "T2"      -> structType(<<GF("int", TRUE), GF("int", TRUE)>>)
      [] tn = "TToArray" -> structType(<<GF("struct{}", FALSE), GF("int", TRUE), GF("T1", TRUE),
                                         GF("T1", TRUE), GF("*T2", TRUE)>>)
      \* TestAnonymousFields8: t1{x, X int}, T2{y, Y int}, T{*t1; *T2}
      [] tn = "t1"      -> structType(<<GF("int", FALSE), GF("int", TRUE)>>)
      [] tn = "U2"      -> structType(<<GF("int", FALSE), GF("int", TRUE)>>)
      [] tn = "T8"      -> structType(<<GF("*t1", FALSE), GF("*U2", TRUE)>>)
      \* the same struct encoded as an array: T{_ struct{} "toarray"; *t1; *T2}
      [] tn = "T8A"     -> structType(<<GF("struct{}", FALSE), GF("*t1", FALSE), GF("*U2", TRUE)>>)
      \* a struct with names that differ in case only, a narrow field and an integer key:
      \* TS{F1 int "a"; F2 int "A"; F3 uint8 "b"; F4 uint8 "1,keyasint"}
      [] tn = "TS"      -> structType(<<GF("int", TRUE), GF("int", TRUE), GF("uint8", TRUE),
                                        GF("uint8", TRUE)>>)
      \* TestStructSort: T{A "aa"; B "z"; C "-1,keyasint"; D "100,keyasint"; E "10,keyasint"}
      [] tn = "TSort"   -> structType(<<GF("bool", TRUE), GF("bool", TRUE), GF("bool", TRUE),
                                        GF("bool", TRUE), GF("bool", TRUE)>>)
      \* the fields of TSort declared in the opposite order
      [] tn = "TSortR"  -> structType(<<GF("bool", TRUE), GF("bool", TRUE), GF("bool", TRUE),
                                        GF("bool", TRUE), GF("bool", TRUE)>>)

kindOf(tn) == goType(tn).kind

\* reflect.PointerTo(t), for the types a call is handed a pointer to
PointerTo(tn) ==
    CASE tn = "int" -> "*int" [] tn = "*int" -> "**int" [] tn = "any" -> "*any"
      [] tn = "*any" -> "**any" [] tn = "time.Time" -> "*time.Time"
      [] tn = "*time.Time" -> "**time.Time" [] tn = "Tag" -> "*Tag"
      [] tn = "*Tag" -> "**Tag"
      [] tn = "[]int" -> "*[]int" [] tn = "[]uint8" -> "*[]uint8" [] tn = "[]byte" -> "*[]byte"
      [] tn = "[2]int" -> "*[2]int" [] tn = "map[string]uint8" -> "*map[string]uint8"
      [] tn = "map[int]int" -> "*map[int]int" [] tn = "map[any]any" -> "*map[any]any"
      [] tn = "map[any]bool" -> "*map[any]bool" [] tn = "TToArray" -> "*TToArray"
      [] tn = "TKeyAsInt" -> "*TKeyAsInt" [] tn = "TSort" -> "*TSort" [] tn = "TSortR" -> "*TSortR"
      [] tn = "T8" -> "*T8" [] tn = "TS" -> "*TS" [] tn = "Node" -> "*Node"
      [] tn = "T8A" -> "*T8A"
      [] tn = "string" -> "*string" [] tn = "uint8" -> "*uint8" [] tn = "uint64" -> "*uint64"
      [] tn = "int64" -> "*int64" [] tn = "[]any" -> "*[]any"
      [] tn = "big.Int" -> "*big.Int"
      [] tn = "Recorder" -> "*Recorder" [] tn = "*Recorder" -> "**Recorder"
      [] tn = "KN.T1" -> "*KN.T1" [] tn = "[]KN.T1" -> "*[]KN.T1"
      [] tn = "[]Recorder" -> "*[]Recorder" [] tn = "[]*Recorder" -> "*[]*Recorder"
      [] tn = "int8" -> "*int8" [] tn = "int32" -> "*int32" [] tn = "uint32" -> "*uint32"
      [] tn = "AF1.T" -> "*AF1.T" [] tn = "AF2.T" -> "*AF2.T" [] tn = "AF10.T" -> "*AF10.T"
      [] tn = "AF11.T" -> "*AF11.T" [] tn = "TF.T" -> "*TF.T" [] tn = "DF.T" -> "*DF.T"

(***************************************************************************)
(* Go values.                                                              *)
(*   integer   n = 1 when negative, s = magnitude                          *)
(*   bool      n = 1 when true                                             *)
(*   string    s = bytes                                                   *)
(*   slice     n = 0 when nil, e = elements (capacity = length)            *)
(*   array     e = elements                                                *)
(*   map       n = 0 when nil, e = entries in insertion order, each a      *)
(*             value of type "pair" with e = <<key, element>>              *)
(*   struct    e = the Go fields in declaration order                      *)
(*   pointer   n = 0 when nil, e = <<pointee>>                             *)
(*   interface the dynamic value itself, or Nil                            *)
(*   big.Int   n = 1 when negative, s = magnitude                          *)
(*   Tag       s = tag number, e = <<content>>                             *)
(*   Recorder  n = the calls of UnmarshalCBOR on it, s = the bytes the     *)
(*             last call was handed                                        *)
(***************************************************************************)
GV(t, n, s, e) == [t |-> t, n |-> n, s |-> s, e |-> e]

Nil == GV("nil", 0, <<>>, <<>>)

IntV(t, neg, mag) == GV(t, IF neg /\ mag # <<>> THEN 1 ELSE 0, mag, <<>>)
BoolV(b) == GV("bool", IF b THEN 1 ELSE 0, <<>>, <<>>)
StrV(t, b) == GV(t, 0, b, <<>>)
SliceV(t, elems) == GV(t, 1, <<>>, elems)
MapV(t, pairs) == GV(t, 1, <<>>, pairs)
PairV(k, v) == GV("pair", 0, <<>>, <<k, v>>)
PtrV(t, pointee) == GV(t, 1, <<>>, <<pointee>>)
StructV(t, fields) == GV(t, 0, <<>>, fields)
TagV(num, content) == GV("Tag", 0, num, <<content>>)
BytesV(t, b) == SliceV(t, [i \in 1..Len(b) |-> IntV(goType(t).elem, FALSE, MagOfInt(b[i]))])

\* a signed integer of the Go program: its sign and magnitude
Num(neg, mag) == [neg |-> neg /\ mag # <<>>, mag |-> mag]
NumOfInt(i) == IF i < 0 THEN Num(TRUE, MagOfInt(0 - i)) ELSE Num(FALSE, MagOfInt(i))
NumOf(v) == Num(v.n = 1, v.s)

RECURSIVE Zero(_)
\* reflect.Zero(t)
Zero(tn) ==
    LET of(ty) ==
          CASE ty.kind = "interface" -> Nil
            [] ty.kind = "array"  -> GV(tn, 0, <<>>, [i \in 1..ty.len |-> Zero(ty.elem)])
            [] ty.kind = "struct" -> GV(tn, 0, <<>>, [i \in 1..Len(ty.layout) |-> Zero(ty.layout[i].typ)])
            [] OTHER -> GV(tn, 0, <<>>, <<>>)
    IN of(goType(tn))

\* v.IsNil() of a value of static type tn
IsNil(v, tn) == IF kindOf(tn) = "interface" THEN v.t = "nil" ELSE v.n = 0

\* the bytes of a []byte or ByteString value
BytesOf(v) == IF v.t = "ByteString" THEN v.s ELSE [i \in 1..Len(v.e) |-> IntOfMag(v.e[i].s)]

(***************************************************************************)
(* Errors: one record shape for every error type of decode.go.             *)
(***************************************************************************)
Err(e, cborType, goTypeName, msg, key, idx) ==
    [e |-> e, cborType |-> cborType, goType |-> goTypeName, field |-> <<>>,
     msg |-> msg, key |-> key, idx |-> idx]

NoErr == Err("nil", "", "", "", Nil, 0)

\* cborType.String()
cborTypeString(t) ==
    CASE t = cborTypePositiveInt -> "positive integer"
      [] t = cborTypeNegativeInt -> "negative integer"
      [] t = cborTypeByteString  -> "byte string"
      [] t = cborTypeTextString  -> "UTF-8 text string"
      [] t = cborTypeArray       -> "array"
      [] t = cborTypeMap         -> "map"
      [] t = cborTypeTag         -> "tag"
      [] t = cborTypePrimitives  -> "primitives"

UnmarshalTypeError(t, goTypeName, msg) ==
    Err("UnmarshalTypeError", cborTypeString(t), goTypeName, msg, Nil, 0)
DupMapKeyError(key, idx) == Err("DupMapKeyError", "", "", "", key, idx)
\* UnknownFieldError as it would be if it carried the index of the next entry
UnknownFieldErrorNext(idx) == Err("UnknownFieldError", "", "", "", Nil, idx + 1)

UnknownFieldError(idx) == Err("UnknownFieldError", "", "", "", Nil, idx)
SemanticError(msg) == Err("SemanticError", "", "", msg, Nil, 0)
errorsNew(msg) == Err("error", "", "", msg, Nil, 0)

\* a run-time panic, which ends the call
panic(msg) == Err("panic", "", "", msg, Nil, 0)

\* firstErr() as it would be if a later error replaced an earlier one
lastErrWins(err, lastErr) == IF lastErr.e # "nil" THEN lastErr ELSE err

\* the first error wins: "if err == nil { err = lastErr }"
firstErr(err, lastErr) == IF err = NoErr THEN lastErr ELSE err

(***************************************************************************)
(* Decoding modes: decode.go, DecOptions and decMode.                      *)
(***************************************************************************)
DupMapKeyQuiet == "DupMapKeyQuiet"
DupMapKeyEnforcedAPF == "DupMapKeyEnforcedAPF"
IntDecConvertNone == "IntDecConvertNone"
IntDecConvertSigned == "IntDecConvertSigned"
MapKeyByteStringFail == "MapKeyByteStringFail"
MapKeyByteStringWrap == "MapKeyByteStringWrap"
ExtraDecErrorNone == "ExtraDecErrorNone"
ExtraDecErrorUnknownField == "ExtraDecErrorUnknownField"
DecTagIgnored == "DecTagIgnored"
DecTagOptional == "DecTagOptional"
DecTagRequired == "DecTagRequired"

IndefLengthAllowed == "IndefLengthAllowed"
IndefLengthForbidden == "IndefLengthForbidden"
TagsAllowed == "TagsAllowed"
TagsForbidden == "TagsForbidden"

defaultMaxNestedLevels == 32
minMaxNestedLevels == 4
maxMaxNestedLevels == 256
defaultMaxArrayElements == 131072
minMaxArrayElements == 16
defaultMaxMapPairs == 131072
minMaxMapPairs == 16

\* DecOptions with the zero value for every option that is not given
DecOptions(dupMapKey, intDec, mapKeyByteString, extraReturnErrors) ==
    [DupMapKey |-> dupMapKey, TimeTag |-> DecTagIgnored, MaxNestedLevels |-> 0,
     MaxArrayElements |-> 0, MaxMapPairs |-> 0, IndefLength |-> IndefLengthAllowed,
     TagsMd |-> TagsAllowed, IntDec |-> intDec, MapKeyByteString |-> mapKeyByteString,
     ExtraReturnErrors |-> extraReturnErrors, DefaultMapType |-> ""]

\* the options decMode() accepts (the limits fit the model's integers)
validDecOptions(opts) ==
    /\ opts.MaxNestedLevels = 0
       \/ (opts.MaxNestedLevels >= minMaxNestedLevels /\ opts.MaxNestedLevels <= maxMaxNestedLevels)
    /\ opts.MaxArrayElements = 0 \/ opts.MaxArrayElements >= minMaxArrayElements
    /\ opts.MaxMapPairs = 0 \/ opts.MaxMapPairs >= minMaxMapPairs
    /\ IF opts.DefaultMapType = "" THEN TRUE ELSE kindOf(opts.DefaultMapType) = "map"

\* opts.decMode() for valid options: a decMode without tags; defaultMapType
\* "" is the nil reflect.Type
decMode(opts) ==
    [dupMapKey |-> opts.DupMapKey, timeTag |-> opts.TimeTag,
     maxNestedLevels |-> IF opts.MaxNestedLevels = 0 THEN defaultMaxNestedLevels
                         ELSE opts.MaxNestedLevels,
     maxArrayElements |-> IF opts.MaxArrayElements = 0 THEN defaultMaxArrayElements
                          ELSE opts.MaxArrayElements,
     maxMapPairs |-> IF opts.MaxMapPairs = 0 THEN defaultMaxMapPairs ELSE opts.MaxMapPairs,
     indefLength |-> opts.IndefLength, tagsMd |-> opts.TagsMd, intDec |-> opts.IntDec,
     mapKeyByteString |-> opts.MapKeyByteString, extraReturnErrors |-> opts.ExtraReturnErrors,
     defaultMapType |-> opts.DefaultMapType, tags |-> <<>>, hasTags |-> FALSE]

\* dm.DecOptions()
decModeDecOptions(dm) ==
    [DupMapKey |-> dm.dupMapKey, TimeTag |-> dm.timeTag,
     MaxNestedLevels |-> dm.maxNestedLevels, MaxArrayElements |-> dm.maxArrayElements,
     MaxMapPairs |-> dm.maxMapPairs, IndefLength |-> dm.indefLength, TagsMd |-> dm.tagsMd,
     IntDec |-> dm.intDec, MapKeyByteString |-> dm.mapKeyByteString,
     ExtraReturnErrors |-> dm.extraReturnErrors, DefaultMapType |-> ""]

\* opts.DecModeWithTags(tags) for valid options that do not forbid tags: the
\* items of the TagSet that are not ignored in decoding, no registry when
\* there is none of them
decModeWithTags(opts, tags) ==
    LET ts == SelectSeq(tags, LAMBDA tag : tag.decTag # DecTagIgnored)
    IN [decMode(opts) EXCEPT !.tags = ts, !.hasTags = ts # <<>>]

\* DecOptions{}.decMode()
defaultDecMode ==
    decMode(DecOptions(DupMapKeyQuiet, IntDecConvertNone, MapKeyByteStringFail, ExtraDecErrorNone))

(***************************************************************************)
(* Type descriptors.  The type resolver itself is not part of decode.go:   *)
(* getTypeInfo and getDecodingStructType give, for the types of goType,    *)
(* the descriptors the decoder reads.                                      *)
(***************************************************************************)
RECURSIVE nonPtrTypeOf(_)
nonPtrTypeOf(tn) ==
    LET of(ty) == IF ty.kind = "ptr" THEN nonPtrTypeOf(ty.elem) ELSE tn
    IN of(goType(tn))

specialTypeNone == "specialTypeNone"
specialTypeEmptyIface == "specialTypeEmptyIface"
specialTypeTag == "specialTypeTag"
specialTypeTime == "specialTypeTime"
specialTypeUnmarshalerIface == "specialTypeUnmarshalerIface"

getTypeInfo(tn) ==
    LET info(np, ty) ==
          [typ |-> tn, nonPtrType |-> np, nonPtrKind |-> ty.kind,
           spclType |-> CASE ty.kind = "interface" -> specialTypeEmptyIface
                          [] np = "Tag" -> specialTypeTag
                          [] np = "time.Time" -> specialTypeTime
                          [] np = "Recorder" -> specialTypeUnmarshalerIface
                          [] OTHER -> specialTypeNone,
           elem |-> ty.elem, key |-> ty.key]
        of(np) == info(np, goType(np))
    IN of(nonPtrTypeOf(tn))

\* a resolved field: its name as bytes, its integer key, the index path
\* into the Go fields (zero-based, as reflect has it) and its type
Fld(name, keyAsInt, nameAsInt, idx, typ, omitEmpty) ==
    [name |-> name, keyAsInt |-> keyAsInt, nameAsInt |-> NumOfInt(nameAsInt),
     idx |-> idx, typ |-> typ, omitEmpty |-> omitEmpty]

ST(fields, toArray, err) == [fields |-> fields, toArray |-> toArray, err |-> err]

(***************************************************************************)
(* The field resolver for the types of structFields.  Fields are found by  *)
(* depth of embedding; of the fields of one name the one at the least      *)
(* depth is visible, of several at that depth the single one that a tag    *)
(* names, and none when no tag or more than one tag tells them apart.      *)
(***************************************************************************)
RECURSIVE appendFields(_, _, _)
\* The fields that tn declares from its i-th on, with those of the structs
\* embedded in it, in the order of their index paths; idx is the path to
\* tn.  An embedded struct without a tag is flattened; an unexported field
\* that is not one is left out.  The depth of a field is Len(idx) - 1.
appendFields(tn, idx, i) ==
    LET field(f) ==
          IF f.anonymous /\ f.tag = <<>> /\ f.typ \in DeclaredTypes
          THEN appendFields(f.typ, Append(idx, i - 1), 1)
          ELSE IF IsExported(f.name)
               THEN <<[name |-> IF f.tag = <<>> THEN f.name ELSE f.tag, tagged |-> f.tag # <<>>,
                       idx |-> Append(idx, i - 1), typ |-> f.typ]>>
               ELSE <<>>
    IN IF i > Len(structFields(tn)) THEN <<>>
       ELSE field(structFields(tn)[i]) \o appendFields(tn, idx, i + 1)

\* the fields of the name of flds[j] at the least depth that name occurs at
leastNested(flds, j) ==
    {k \in 1..Len(flds) : /\ flds[k].name = flds[j].name
                          /\ \A m \in 1..Len(flds) :
                               flds[m].name = flds[j].name => Len(flds[k].idx) <= Len(flds[m].idx)}

\* visible() as it would be if the first of several fields of one name at
\* the least depth were taken
visibleFirst(flds, j) == j \in leastNested(flds, j) /\ \A k \in leastNested(flds, j) : j <= k

\* visible() as it would be if a tag told no field from another
visibleUntagged(flds, j) == leastNested(flds, j) = {j}

\* flds[j] is the field that its name stands for
visible(flds, j) ==
    /\ j \in leastNested(flds, j)
    /\ \/ leastNested(flds, j) = {j}
       \/ {k \in leastNested(flds, j) : flds[k].tagged} = {j}

RECURSIVE keepVisible(_, _)
\* the visible fields among flds[j..], in their order
keepVisible(flds, j) ==
    IF j > Len(flds) THEN <<>>
    ELSE (IF visible(flds, j)
          THEN <<Fld(flds[j].name, FALSE, 0, flds[j].idx, flds[j].typ, FALSE)>>
          ELSE <<>>) \o keepVisible(flds, j + 1)

getFields(tn) == keepVisible(appendFields(tn, <<>>, 1), 1)

getDecodingStructType(tn) ==
    CASE tn = "Node" -> ST(<<Fld(<<118>>, FALSE, 0, <<0>>, "int", FALSE),
                             Fld(<<110>>, FALSE, 0, <<1>>, "*Node", TRUE)>>, FALSE, NoErr)
      [] tn = "TKeyAsInt" -> ST(<<Fld(<<49>>, TRUE, 1, <<0>>, "int", TRUE),
                                  Fld(<<50>>, FALSE, 0, <<1>>, "int", TRUE),
                                  Fld(<<45, 51>>, TRUE, -3, <<2>>, "int", TRUE)>>, FALSE, NoErr)
      [] tn = "T1" -> ST(<<Fld(<<77>>, FALSE, 0, <<0>>, "int", TRUE)>>, FALSE, NoErr)
      [] tn = "T2" -> ST(<<Fld(<<78>>, FALSE, 0, <<0>>, "int", TRUE),
                           Fld(<<79>>, FALSE, 0, <<1>>, "int", TRUE)>>, FALSE, NoErr)
      [] tn = "TToArray" -> ST(<<Fld(<<65>>, FALSE, 0, <<1>>, "int", TRUE),
                                 Fld(<<66>>, FALSE, 0, <<2>>, "T1", FALSE),
                                 Fld(<<77>>, FALSE, 0, <<3, 0>>, "int", TRUE),
                                 Fld(<<78>>, FALSE, 0, <<4, 0>>, "int", TRUE),
                                 Fld(<<79>>, FALSE, 0, <<4, 1>>, "int", TRUE)>>, TRUE, NoErr)
      [] tn = "t1" -> ST(<<Fld(<<88>>, FALSE, 0, <<1>>, "int", FALSE)>>, FALSE, NoErr)
      [] tn = "U2" -> ST(<<Fld(<<89>>, FALSE, 0, <<1>>, "int", FALSE)>>, FALSE, NoErr)
      [] tn = "T8" -> ST(<<Fld(<<88>>, FALSE, 0, <<0, 1>>, "int", FALSE),
                           Fld(<<89>>, FALSE, 0, <<1, 1>>, "int", FALSE)>>, FALSE, NoErr)
      [] tn = "T8A" -> ST(<<Fld(<<88>>, FALSE, 0, <<1, 1>>, "int", FALSE),
                            Fld(<<89>>, FALSE, 0, <<2, 1>>, "int", FALSE)>>, TRUE, NoErr)
      [] tn = "TS" -> ST(<<Fld(<<97>>, FALSE, 0, <<0>>, "int", FALSE),
                           Fld(<<65>>, FALSE, 0, <<1>>, "int", FALSE),
                           Fld(<<98>>, FALSE, 0, <<2>>, "uint8", FALSE),
                           Fld(<<49>>, TRUE, 1, <<3>>, "uint8", FALSE)>>, FALSE, NoErr)
      [] tn = "TSort" -> ST(<<Fld(<<97, 97>>, FALSE, 0, <<0>>, "bool", FALSE),
                              Fld(<<122>>, FALSE, 0, <<1>>, "bool", FALSE),
                              Fld(<<45, 49>>, TRUE, -1, <<2>>, "bool", FALSE),
                              Fld(<<49, 48, 48>>, TRUE, 100, <<3>>, "bool", FALSE),
                              Fld(<<49, 48>>, TRUE, 10, <<4>>, "bool", FALSE)>>, FALSE, NoErr)
      [] tn = "TSortR" -> ST(<<Fld(<<49, 48>>, TRUE, 10, <<0>>, "bool", FALSE),
                               Fld(<<49, 48, 48>>, TRUE, 100, <<1>>, "bool", FALSE),
                               Fld(<<45, 49>>, TRUE, -1, <<2>>, "bool", FALSE),
                               Fld(<<122>>, FALSE, 0, <<3>>, "bool", FALSE),
                               Fld(<<97, 97>>, FALSE, 0, <<4>>, "bool", FALSE)>>, FALSE, NoErr)
      [] tn = "KN.T1" ->
           ST(<<>>, FALSE, errorsNew("cbor: failed to parse field name \"2.0\" to int"))
      [] tn \in DeclaredTypes -> ST(getFields(tn), FALSE, NoErr)
      [] OTHER -> ST(<<>>, FALSE, NoErr)

(***************************************************************************)
(* decode.go: the fill functions.  Each returns the new value of v and the *)
(* error.  tn is v.Type().                                                 *)
(***************************************************************************)
Filled(v, err) == [v |-> v, err |-> err]

\* v.OverflowInt(x) for a signed x
OverflowInt(bits, x) == IF x.neg THEN ~MagLE(x.mag, Pow2Mag(bits - 1))
                        ELSE ~MagLE(x.mag, Pow2Less1Mag(bits - 1))

\* v.OverflowUint(x)
OverflowUint(bits, mag) == ~MagLE(mag, Pow2Less1Mag(bits))

\* math.MaxInt64 as it would be if math.MaxUint64 stood in its place
MaxInt64Unsigned == Pow2Less1Mag(64)

MaxInt64 == Pow2Less1Mag(63)

\* fillNil() as it would be if it left every value as it is
fillNilKeeping(t, v, tn) == Filled(v, NoErr)

fillNil(t, v, tn) ==
    IF kindOf(tn) \in {"slice", "map", "interface", "ptr"}
    THEN Filled(Zero(tn), NoErr)
    ELSE Filled(v, NoErr)

\* fillPositiveInt() as it would be if it stored nothing
fillPositiveIntKeeping(t, val, v, tn) == Filled(v, NoErr)

fillPositiveInt(t, val, v, tn) ==
    LET overflows == Filled(v, UnmarshalTypeError(t, tn, "overflows"))
        fill(ty) ==
          CASE ty.kind = "int" ->
                 IF ~MagLE(val, MaxInt64) THEN overflows
                 ELSE IF OverflowInt(ty.bits, Num(FALSE, val)) THEN overflows
                      ELSE Filled(IntV(tn, FALSE, val), NoErr)
            [] ty.kind = "uint" ->
                 IF OverflowUint(ty.bits, val) THEN overflows
                 ELSE Filled(IntV(tn, FALSE, val), NoErr)
            [] tn = "big.Int" -> Filled(IntV(tn, FALSE, val), NoErr)
            [] OTHER -> Filled(v, UnmarshalTypeError(t, tn, ""))
    IN fill(goType(tn))

\* fillNegativeInt() as it would be if it stored a value without asking
\* whether the type can hold it
fillNegativeIntUnchecked(t, val, v, tn) ==
    IF kindOf(tn) = "int" \/ tn = "big.Int" THEN Filled(IntV(tn, val.neg, val.mag), NoErr)
    ELSE Filled(v, UnmarshalTypeError(t, tn, ""))

fillNegativeInt(t, val, v, tn) ==
    LET fill(ty) ==
          CASE ty.kind = "int" ->
                 IF OverflowInt(ty.bits, val)
                 THEN Filled(v, UnmarshalTypeError(t, tn, "overflows"))
                 ELSE Filled(IntV(tn, val.neg, val.mag), NoErr)
            [] tn = "big.Int" -> Filled(IntV(tn, val.neg, val.mag), NoErr)
            [] OTHER -> Filled(v, UnmarshalTypeError(t, tn, ""))
    IN fill(goType(tn))

fillBool(t, val, v, tn) ==
    IF kindOf(tn) = "bool" THEN Filled(BoolV(val), NoErr)
    ELSE Filled(v, UnmarshalTypeError(t, tn, ""))

fillByteString(t, val, v, tn) ==
    LET fill(ty) ==
          LET ofBytes(elem) == elem.kind = "uint" /\ elem.bits = 8
              bytes == ty.kind \in {"slice", "array"} /\ ofBytes(goType(ty.elem))
          IN
          CASE ty.kind = "slice" /\ bytes ->
                 Filled(SliceV(tn, [i \in 1..Len(val) |-> IntV(ty.elem, FALSE, MagOfInt(val[i]))]),
                        NoErr)
            [] ty.kind = "array" /\ bytes ->
                 Filled(GV(tn, 0, <<>>,
                           [i \in 1..ty.len |->
                              IntV(ty.elem, FALSE, IF i <= Len(val) THEN MagOfInt(val[i]) ELSE <<>>)]),
                        NoErr)
            [] OTHER -> Filled(v, UnmarshalTypeError(t, tn, ""))
    IN fill(goType(tn))

fillTextString(t, val, v, tn) ==
    IF kindOf(tn) = "string" THEN Filled(StrV(tn, val), NoErr)
    ELSE Filled(v, UnmarshalTypeError(t, tn, ""))

RECURSIVE isHashableValue(_)
\* rv.Kind() of the dynamic value; the invalid Value of a nil key is hashable
isHashableValue(rv) ==
    CASE rv.t = "nil" -> TRUE
      [] rv.t = "Tag" -> isHashableValue(rv.e[1])
      [] rv.t = "big.Int" -> FALSE
      [] kindOf(rv.t) \in {"slice", "map"} -> FALSE
      [] OTHER -> TRUE

validBuiltinTag(tagNum, contentHead) ==
    LET t == (contentHead \div 32) * 32 IN
    CASE tagNum = <<>> /\ t # cborTypeTextString ->
           errorsNew("cbor: tag number 0 must be followed by text string")
      [] tagNum = <<1>> /\ t # cborTypePositiveInt /\ t # cborTypeNegativeInt
                       /\ (contentHead < 249 \/ contentHead > 251) ->
           errorsNew("cbor: tag number 1 must be followed by integer or floating-point number")
      [] tagNum \in {<<2>>, <<3>>} /\ t # cborTypeByteString ->
           errorsNew("cbor: tag number 2 or 3 must be followed by byte string")
      [] OTHER -> NoErr

(***************************************************************************)
(* utf8.Valid of the Go standard library.                                  *)
(***************************************************************************)
utf8Cont(b, i, lo, hi) == i <= Len(b) /\ b[i] >= lo /\ b[i] <= hi

RECURSIVE utf8Valid(_)
utf8Valid(b) ==
    IF b = <<>> THEN TRUE
    ELSE LET c == b[1]
             rest(k) == utf8Valid(SubSeq(b, k + 1, Len(b)))
         IN CASE c < 128 -> rest(1)
              [] c >= 194 /\ c <= 223 -> utf8Cont(b, 2, 128, 191) /\ rest(2)
              [] c = 224 -> utf8Cont(b, 2, 160, 191) /\ utf8Cont(b, 3, 128, 191) /\ rest(3)
              [] (c >= 225 /\ c <= 236) \/ c \in {238, 239} ->
                   utf8Cont(b, 2, 128, 191) /\ utf8Cont(b, 3, 128, 191) /\ rest(3)
              [] c = 237 -> utf8Cont(b, 2, 128, 159) /\ utf8Cont(b, 3, 128, 191) /\ rest(3)
              [] c = 240 -> utf8Cont(b, 2, 144, 191) /\ utf8Cont(b, 3, 128, 191)
                            /\ utf8Cont(b, 4, 128, 191) /\ rest(4)
              [] c >= 241 /\ c <= 243 -> utf8Cont(b, 2, 128, 191) /\ utf8Cont(b, 3, 128, 191)
                                         /\ utf8Cont(b, 4, 128, 191) /\ rest(4)
              [] c = 244 -> utf8Cont(b, 2, 128, 143) /\ utf8Cont(b, 3, 128, 191)
                            /\ utf8Cont(b, 4, 128, 191) /\ rest(4)
              [] OTHER -> FALSE

(***************************************************************************)
(* decode.go: byte and text strings.                                       *)
(***************************************************************************)
RECURSIVE byteChunks(_, _)
byteChunks(d, b) ==
    LET fb == foundBreak(d) IN
    IF fb.found THEN [b |-> b, d |-> fb.d]
    ELSE LET h == getHead(d)
             n == IntOfMag(h.val)
         IN byteChunks(adv(h.d, n), b \o SubSeq(d.data, h.d.off, h.d.off + n - 1))

parseByteString(d) ==
    LET h == getHead(d)
        n == IntOfMag(h.val)
    IN IF h.ai # 31
       THEN [b |-> SubSeq(d.data, h.d.off, h.d.off + n - 1), d |-> adv(h.d, n)]
       ELSE byteChunks(h.d, <<>>)

RECURSIVE skipToBreak(_)
\* "for !d.foundBreak() { d.skip() }"
skipToBreak(d) == LET fb == foundBreak(d) IN IF fb.found THEN fb.d ELSE skipToBreak(skip(d))

RECURSIVE textChunks(_, _)
textChunks(d, b) ==
    LET fb == foundBreak(d) IN
    IF fb.found THEN [b |-> b, err |-> NoErr, d |-> fb.d]
    ELSE LET h == getHead(d)
             n == IntOfMag(h.val)
             x == SubSeq(d.data, h.d.off, h.d.off + n - 1)
         IN IF ~utf8Valid(x)
            THEN [b |-> <<>>, err |-> SemanticError("cbor: invalid UTF-8 string"),
                  d |-> skipToBreak(adv(h.d, n))]
            ELSE textChunks(adv(h.d, n), b \o x)

parseTextString(d) ==
    LET h == getHead(d)
        n == IntOfMag(h.val)
        b == SubSeq(d.data, h.d.off, h.d.off + n - 1)
    IN IF h.ai # 31
       THEN IF ~utf8Valid(b)
            THEN [b |-> <<>>, err |-> SemanticError("cbor: invalid UTF-8 string"), d |-> adv(h.d, n)]
            ELSE [b |-> b, err |-> NoErr, d |-> adv(h.d, n)]
       ELSE textChunks(h.d, <<>>)

(***************************************************************************)
(* The tag registry read by the decoder (its code is not in decode.go).    *)
(* A registry is a sequence of items [contentType, num, decTag]; num is    *)
(* the chain of tag numbers, outermost first.                              *)
(***************************************************************************)
equalTagNum(item, tagNums) == item.num = tagNums

\* the chain p begins the chain s
prefixTagNum(p, s) == Len(p) <= Len(s) /\ SubSeq(s, 1, Len(p)) = p

\* the registered type of a chain of tag numbers, "" when there is none:
\* the type of the longest registered chain that the chain begins with
getTypeFromTagNum(tags, tagNums) ==
    LET hits == {i \in 1..Len(tags) : prefixTagNum(tags[i].num, tagNums)}
        longest == {i \in hits : \A j \in hits : Len(tags[j].num) <= Len(tags[i].num)}
    IN IF hits = {} THEN "" ELSE tags[CHOOSE i \in longest : TRUE].contentType

(***************************************************************************)
(* decode.go: parse, the decoder into the default Go types.                *)
(***************************************************************************)
Parsed(v, err, d) == [v |-> v, err |-> err, d |-> d]

RECURSIVE stripSelfDescribed(_)
\* "Strip self-described CBOR tag number."
stripSelfDescribed(d) ==
    IF nextCBORType(d) = cborTypeTag
    THEN LET h == getHead(d) IN
         IF h.val = selfDescribedCBORTagNum THEN stripSelfDescribed(h.d) ELSE d
    ELSE d

RECURSIVE tagNumsAt(_, _)
\* the tag numbers from the cursor on, and the cursor at the tag content
tagNumsAt(d, nums) ==
    IF nextCBORType(d) = cborTypeTag
    THEN LET h == getHead(d) IN tagNumsAt(h.d, Append(nums, h.val))
    ELSE [nums |-> nums, d |-> d]

\* m[k] = e on the entries of a Go map
MapSet(pairs, k, e) ==
    IF \E i \in 1..Len(pairs) : pairs[i].e[1] = k
    THEN [i \in 1..Len(pairs) |-> IF pairs[i].e[1] = k THEN PairV(k, e) ELSE pairs[i]]
    ELSE Append(pairs, PairV(k, e))

RECURSIVE skipRestOfMap(_, _, _, _)
\* "skip the rest of the map"
skipRestOfMap(d, hasSize, count, i) ==
    IF hasSize
    THEN IF i < count THEN skipRestOfMap(skip(skip(d)), hasSize, count, i + 1) ELSE d
    ELSE LET fb == foundBreak(d) IN
         IF fb.found THEN fb.d ELSE skipRestOfMap(skip(skip(d)), hasSize, count, i + 1)

\* time.Unix(sec, 0); the zero time.Time has no seconds
TimeV(sec) == GV("time.Time", IF sec.neg THEN 1 ELSE 0, sec.mag, <<Nil>>)

\* int64(val) of a uint64
int64OfUint64(val) == IF MagLE(val, MaxInt64) THEN Num(FALSE, val)
                      ELSE Num(TRUE, TwosComplement64(val))

\* new(big.Int).SetBytes(b) as it would be if tag 3 were read as tag 2 is,
\* without "bi.Add(bi, 1)"
bigIntOfBytesPlain(neg, b) == IntV("big.Int", neg, MagNorm(b))

\* the big integer of the content b of tag 2 (b) or, neg, of tag 3 (-1 - b)
bigIntOfBytes(neg, b) == IntV("big.Int", neg, IF neg THEN MagInc(MagNorm(b)) ELSE MagNorm(b))

RECURSIVE parse(_, _)
RECURSIVE parseArrayLoop(_, _, _, _, _, _)
RECURSIVE parseMapLoop(_, _, _, _, _, _, _)
RECURSIVE parseToTime(_)
RECURSIVE skipTagNums(_)
RECURSIVE parseToValue(_, _, _)

parseArrayLoop(d, hasSize, count, i, v, err) ==
    LET element(r) ==
          IF r.err # NoErr
          THEN parseArrayLoop(r.d, hasSize, count, i + 1, v, firstErr(err, r.err))
          ELSE parseArrayLoop(r.d, hasSize, count, i + 1, [v EXCEPT ![i + 1] = r.v], err)
        from(fb) == IF fb.found THEN Parsed(SliceV("[]any", v), err, fb.d)
                    ELSE element(parse(fb.d, TRUE))
    IN from(IF hasSize THEN [found |-> ~(i < count), d |-> d] ELSE foundBreak(d))

parseArray(d) ==
    LET h == getHead(d)
        hasSize == h.ai # 31
        count == IF hasSize THEN IntOfMag(h.val) ELSE numOfItemsUntilBreak(h.d)
    IN parseArrayLoop(h.d, hasSize, count, 0, [i \in 1..count |-> Nil], NoErr)

parseMapLoop(d, hasSize, count, i, m, keyCount, err) ==
    LET stored(k, er, m1) ==
          IF d.dm.dupMapKey = DupMapKeyEnforcedAPF
          THEN IF Len(m1) = keyCount
               THEN Parsed(MapV("map[any]any", MapSet(m1, k, Nil)), DupMapKeyError(k, i),
                           skipRestOfMap(er.d, hasSize, count, i + 1))
               ELSE parseMapLoop(er.d, hasSize, count, i + 1, m1, Len(m1), err)
          ELSE parseMapLoop(er.d, hasSize, count, i + 1, m1, keyCount, err)
        element(k, er) ==
          IF er.err # NoErr
          THEN parseMapLoop(er.d, hasSize, count, i + 1, m, keyCount, firstErr(err, er.err))
          ELSE stored(k, er, MapSet(m, k, er.v))
        keyed(kr, k) ==
          IF ~isHashableValue(k)
          THEN parseMapLoop(skip(kr.d), hasSize, count, i + 1, m, keyCount,
                            firstErr(err, errorsNew("cbor: invalid map key type")))
          ELSE element(k, parse(kr.d, TRUE))
        key(kr) ==
          IF kr.err # NoErr
          THEN parseMapLoop(skip(kr.d), hasSize, count, i + 1, m, keyCount, firstErr(err, kr.err))
          ELSE keyed(kr, IF kr.v.t = "[]byte" /\ d.dm.mapKeyByteString = MapKeyByteStringWrap
                         THEN StrV("ByteString", BytesOf(kr.v)) ELSE kr.v)
        from(fb) == IF fb.found THEN Parsed(MapV("map[any]any", m), err, fb.d)
                    ELSE key(parse(fb.d, TRUE))
    IN from(IF hasSize THEN [found |-> ~(i < count), d |-> d] ELSE foundBreak(d))

parseMap(d) ==
    LET h == getHead(d)
        hasSize == h.ai # 31
    IN parseMapLoop(h.d, hasSize, IF hasSize THEN IntOfMag(h.val) ELSE 0, 0, <<>>, 0, NoErr)

skipTagNums(d) ==
    IF nextCBORType(d) = cborTypeTag THEN skipTagNums(getHead(d).d) ELSE d

\* RFC 3339 text and floating-point seconds are kept as the content they
\* came from: time.Parse and math.Modf are outside this model.
parseToTime(d) ==
    LET zero == Zero("time.Time")
        t == nextCBORType(d)
        h == getHead(d)
        \* the tag in front of the content: the error, the cursor at the
        \* content and the type named in a type error
        pre == CASE t = cborTypeTag /\ d.dm.timeTag = DecTagIgnored ->
                      [err |-> NoErr, d |-> skipTagNums(d), t |-> nextCBORType(skipTagNums(d))]
                 [] t = cborTypeTag /\ h.val \notin {<<>>, <<1>>} ->
                      [err |-> errorsNew("cbor: wrong tag number for time.Time"),
                       d |-> skip(h.d), t |-> t]
                 [] t = cborTypeTag -> [err |-> NoErr, d |-> h.d, t |-> t]
                 [] d.dm.timeTag = DecTagRequired ->
                      [err |-> UnmarshalTypeError(t, "time.Time", "expect CBOR tag value"),
                       d |-> skip(d), t |-> t]
                 [] OTHER -> [err |-> NoErr, d |-> d, t |-> t]
        content(c) ==
          IF c.err # NoErr THEN Parsed(zero, c.err, c.d)
          ELSE CASE c.v.t = "nil" -> Parsed(zero, NoErr, c.d)
                 [] c.v.t = "uint64" -> Parsed(TimeV(int64OfUint64(c.v.s)), NoErr, c.d)
                 [] c.v.t = "int64" -> Parsed(TimeV(NumOf(c.v)), NoErr, c.d)
                 [] c.v.t \in {"float64", "string"} ->
                      Parsed(GV("time.Time", 0, <<>>, <<c.v>>), NoErr, c.d)
                 [] OTHER -> Parsed(zero, UnmarshalTypeError(pre.t, "time.Time", ""), c.d)
    IN IF pre.err # NoErr THEN Parsed(zero, pre.err, pre.d)
       ELSE content(parse(pre.d, FALSE))

parse(d0, skipSelfDescribedTag) ==
    LET d == IF skipSelfDescribedTag THEN stripSelfDescribed(d0) ELSE d0
        t == nextCBORType(d)
        h == getHead(d)
        builtinErr == IF t = cborTypeTag THEN validBuiltinTag(h.val, cur(h.d)) ELSE NoErr
        \* the value of a registered type, or of the default map type
        typed(r) == IF r.err # NoErr THEN Parsed(Nil, r.err, r.d) ELSE Parsed(r.v, NoErr, r.d)
        bytes(b) == Parsed(BytesV("[]byte", b.b), NoErr, b.d)
        text(b) == IF b.err # NoErr THEN Parsed(Nil, b.err, b.d)
                   ELSE Parsed(StrV("string", b.b), NoErr, b.d)
        bignum(neg, b) == Parsed(bigIntOfBytes(neg, b.b), NoErr, b.d)
        tag(c) == IF c.err # NoErr THEN Parsed(Nil, c.err, c.d)
                  ELSE Parsed(TagV(h.val, c.v), NoErr, c.d)
        registered(registeredType) ==
          IF registeredType # ""
          THEN typed(parseToValue(d, Zero(registeredType), registeredType))
          ELSE tag(parse(h.d, FALSE))
    IN
    IF builtinErr # NoErr THEN Parsed(Nil, builtinErr, skip(h.d))
    ELSE
    CASE t = cborTypePositiveInt ->
           IF d.dm.intDec = IntDecConvertNone
           THEN Parsed(IntV("uint64", FALSE, h.val), NoErr, h.d)
           ELSE IF ~MagLE(h.val, MaxInt64)
                THEN Parsed(Nil, UnmarshalTypeError(t, "int64", "overflows Go's int64"), h.d)
                ELSE Parsed(IntV("int64", FALSE, h.val), NoErr, h.d)
      [] t = cborTypeNegativeInt ->
           IF ~MagLE(h.val, MaxInt64)
           THEN Parsed(IntV("big.Int", TRUE, MagInc(h.val)), NoErr, h.d)
           ELSE Parsed(IntV("int64", TRUE, MagInc(h.val)), NoErr, h.d)
      [] t = cborTypeByteString -> bytes(parseByteString(d))
      [] t = cborTypeTextString -> text(parseTextString(d))
      [] t = cborTypeTag ->
           CASE h.val \in {<<>>, <<1>>} -> parseToTime(d)
             [] h.val \in {<<2>>, <<3>>} -> bignum(h.val = <<3>>, parseByteString(h.d))
             [] OTHER ->
                  registered(IF d.dm.hasTags
                             THEN getTypeFromTagNum(d.dm.tags, tagNumsAt(h.d, <<h.val>>).nums)
                             ELSE "")
      [] t = cborTypePrimitives ->
           CASE h.ai < 20 \/ h.ai = 24 -> Parsed(IntV("uint64", FALSE, h.val), NoErr, h.d)
             [] h.ai \in {20, 21} -> Parsed(BoolV(h.ai = 21), NoErr, h.d)
             [] h.ai \in {25, 26, 27} -> Parsed(GV("float64", h.ai, h.val, <<>>), NoErr, h.d)
             [] OTHER -> Parsed(Nil, NoErr, h.d)
      [] t = cborTypeArray -> parseArray(d)
      [] t = cborTypeMap ->
           IF d.dm.defaultMapType # ""
           THEN typed(parseToValue(d, Zero(d.dm.defaultMapType), d.dm.defaultMapType))
           ELSE parseMap(d)

(***************************************************************************)
(* Struct fields reached through an index path.  getFieldValue is code of  *)
(* the encoder's file; the decoder passes it the function that allocates a *)
(* nil embedded pointer, or fails when reflect cannot set it.              *)
(***************************************************************************)
\* the function that the decoder hands to getFieldValue as it would be if it
\* set the pointer without asking whether reflect can set it
embeddedFieldNullPtrUnasked(gf) ==
    [v |-> PtrV(gf.typ, Zero(goType(gf.typ).elem)), valid |-> TRUE, err |-> NoErr]

\* The function that the decoder hands to getFieldValue: a new value for
\* the nil embedded pointer of the field gf to point to, or an error that
\* ends with the type of the pointer.
embeddedFieldNullPtr(gf) ==
    IF ~gf.canSet
    THEN [v |-> Nil, valid |-> FALSE,
          err |-> [errorsNew("cbor: cannot set embedded pointer to unexported struct: ")
                     EXCEPT !.goType = gf.typ]]
    ELSE [v |-> PtrV(gf.typ, Zero(goType(gf.typ).elem)), valid |-> TRUE, err |-> NoErr]

RECURSIVE getFieldValue(_, _, _)
\* The struct v of type vt with the nil embedded pointers on the way to the
\* field allocated; valid is false when one of them cannot be set.
getFieldValue(v, vt, idx) ==
    LET n == idx[1] + 1
        behind(gf, r) ==
          [v |-> [v EXCEPT !.e[n] = PtrV(gf.typ, r.v)], valid |-> r.valid, err |-> r.err]
        inside(r) == [v |-> [v EXCEPT !.e[n] = r.v], valid |-> r.valid, err |-> r.err]
        pointee(gf, ty, p) ==
          IF ~p.valid THEN [v |-> v, valid |-> FALSE, err |-> p.err]
          ELSE behind(gf, getFieldValue(p.v.e[1], ty.elem, Tail(idx)))
        embedded(gf, ty, fv) ==
          IF ty.kind = "ptr" /\ kindOf(ty.elem) = "struct"
          THEN pointee(gf, ty, IF fv.n = 0 THEN embeddedFieldNullPtr(gf)
                               ELSE [v |-> fv, valid |-> TRUE, err |-> NoErr])
          ELSE inside(getFieldValue(fv, gf.typ, Tail(idx)))
        field(gf) == embedded(gf, goType(gf.typ), v.e[n])
    IN IF Len(idx) = 1 THEN [v |-> v, valid |-> TRUE, err |-> NoErr]
       ELSE field(goType(vt).layout[n])

RECURSIVE fieldAt(_, _, _)
\* the field of v at the index path (every embedded pointer on it is set)
fieldAt(v, vt, idx) ==
    LET n == idx[1] + 1
        embedded(gf, ty) == IF ty.kind = "ptr" THEN fieldAt(v.e[n].e[1], ty.elem, Tail(idx))
                            ELSE fieldAt(v.e[n], gf.typ, Tail(idx))
        field(gf) == embedded(gf, goType(gf.typ))
    IN IF Len(idx) = 1 THEN v.e[n] ELSE field(goType(vt).layout[n])

RECURSIVE setFieldAt(_, _, _, _)
\* v with the field at the index path set to x
setFieldAt(v, vt, idx, x) ==
    LET n == idx[1] + 1
        embedded(gf, ty) ==
          IF ty.kind = "ptr"
          THEN [v EXCEPT !.e[n] = PtrV(gf.typ, setFieldAt(v.e[n].e[1], ty.elem, Tail(idx), x))]
          ELSE [v EXCEPT !.e[n] = setFieldAt(v.e[n], gf.typ, Tail(idx), x)]
        field(gf) == embedded(gf, goType(gf.typ))
    IN IF Len(idx) = 1 THEN [v EXCEPT !.e[n] = x] ELSE field(goType(vt).layout[n])

(***************************************************************************)
(* decode.go: parseToValue and the decoders of arrays and maps.            *)
(***************************************************************************)
\* strings.EqualFold on names of equal length
foldByte(c) == IF c >= 97 /\ c <= 122 THEN c - 32 ELSE c
\* EqualFold() as it would be if it told upper case from lower case
EqualFoldExact(a, b) == a = b

EqualFold(a, b) == Len(a) = Len(b) /\ \A i \in 1..Len(a) : foldByte(a[i]) = foldByte(b[i])

\* every value the model decodes into is addressable
CanSet(v) == TRUE

\* "typeError.StructFieldName = ..." on the first error of a field
withFieldName(lastErr, typ, name) ==
    IF lastErr.e = "UnmarshalTypeError" THEN [lastErr EXCEPT !.field = <<typ, name>>] ELSE lastErr

\* u.UnmarshalCBOR(data) of a Recorder: it keeps the bytes and returns nil
UnmarshalCBOR(u, bytes) == [u EXCEPT !.n = @ + 1, !.s = bytes]

\* a delegation that hands over the rest of the data
parseToUnmarshalerRest(d, v, vt) ==
    LET next == skip(d)
        span == SubSeq(d.data, d.off, Len(d.data))
    IN IF nextCBORNil(d) /\ kindOf(vt) = "ptr" /\ v.n = 0 THEN Parsed(v, NoErr, next)
       ELSE IF kindOf(vt) # "ptr" THEN Parsed(UnmarshalCBOR(v, span), NoErr, next)
       ELSE IF vt = "*Recorder" THEN Parsed(PtrV(vt, UnmarshalCBOR(v.e[1], span)), NoErr, next)
       ELSE Parsed(v, errorsNew("cbor: failed to assert as cbor.Unmarshaler"), next)

\* v of type vt is addressable; the method is on the pointer to a Recorder
parseToUnmarshaler(d, v, vt) ==
    LET next == skip(d)
        span == SubSeq(d.data, d.off, next.off - 1)
    IN IF nextCBORNil(d) /\ kindOf(vt) = "ptr" /\ v.n = 0 THEN Parsed(v, NoErr, next)
       ELSE IF kindOf(vt) # "ptr" THEN Parsed(UnmarshalCBOR(v, span), NoErr, next)
       ELSE IF vt = "*Recorder" THEN Parsed(PtrV(vt, UnmarshalCBOR(v.e[1], span)), NoErr, next)
       ELSE Parsed(v, errorsNew("cbor: failed to assert as cbor.Unmarshaler"), next)

RECURSIVE parseValue(_, _, _, _)
RECURSIVE parseArrayToSliceLoop(_, _, _, _, _, _, _)
RECURSIVE parseArrayToArrayLoop(_, _, _, _, _, _, _, _)
RECURSIVE parseArrayToStructLoop(_, _, _, _, _, _, _)
RECURSIVE parseMapToMapLoop(_, _, _)
RECURSIVE parseMapToStructLoop(_, _, _)

parseArrayToSliceLoop(d, hasSize, count, i, v, tInfo, err) ==
    LET element(r) ==
          parseArrayToSliceLoop(r.d, hasSize, count, i + 1, [v EXCEPT !.e[i + 1] = r.v],
                                tInfo, firstErr(err, r.err))
        from(fb) == IF fb.found THEN Parsed(v, err, fb.d)
                    ELSE IF i >= Len(v.e)
                    THEN Parsed(v, panic("reflect: slice index out of range"), fb.d)
                    ELSE element(parseToValue(fb.d, v.e[i + 1], tInfo.elem))
    IN from(IF hasSize THEN [found |-> ~(i < count), d |-> d] ELSE foundBreak(d))

parseArrayToSlice(d, v, tInfo) ==
    LET h == getHead(d)
        hasSize == h.ai # 31
        count == IF hasSize THEN IntOfMag(h.val) ELSE numOfItemsUntilBreak(h.d)
    IN parseArrayToSliceLoop(
         h.d, hasSize, count, 0,
         SliceV(tInfo.nonPtrType,
                IF v.n = 0 \/ Len(v.e) < count \/ count = 0
                THEN [i \in 1..count |-> Zero(tInfo.elem)]
                ELSE SubSeq(v.e, 1, count)),
         tInfo, NoErr)

parseArrayToArrayLoop(d, hasSize, count, ci, gi, v, tInfo, err) ==
    LET vLen == Len(v.e)
        element(r) ==
          parseArrayToArrayLoop(r.d, hasSize, count, ci + 1, gi + 1,
                                [v EXCEPT !.e[gi + 1] = r.v], tInfo, firstErr(err, r.err))
        zeroed(zeroV) == [v EXCEPT !.e = [i \in 1..vLen |-> IF i > gi THEN zeroV ELSE v.e[i]]]
        from(fb) ==
          IF fb.found THEN Parsed(zeroed(Zero(tInfo.elem)), err, fb.d)
          ELSE IF gi < vLen
               THEN element(parseToValue(fb.d, v.e[gi + 1], tInfo.elem))
               ELSE parseArrayToArrayLoop(skip(fb.d), hasSize, count, ci + 1, gi, v, tInfo, err)
    IN from(IF hasSize THEN [found |-> ~(ci < count), d |-> d] ELSE foundBreak(d))

parseArrayToArray(d, v, tInfo) ==
    LET h == getHead(d)
    IN parseArrayToArrayLoop(h.d, h.ai # 31, IntOfMag(h.val), 0, 0, v, tInfo, NoErr)

parseArrayToStructLoop(d, hasSize, count, i, v, tInfo, err) ==
    LET element(f, g, err1, r) ==
          parseArrayToStructLoop(r.d, hasSize, count, i + 1,
                                 setFieldAt(g.v, tInfo.nonPtrType, f.idx, r.v), tInfo,
                                 IF r.err # NoErr
                                 THEN firstErr(err1, withFieldName(r.err, tInfo.typ, f.name))
                                 ELSE err1)
        reached(fb, f, g, err1) ==
          IF ~g.valid
          THEN parseArrayToStructLoop(skip(fb.d), hasSize, count, i + 1, g.v, tInfo, err1)
          ELSE element(f, g, err1,
                       parseToValue(fb.d, fieldAt(g.v, tInfo.nonPtrType, f.idx), f.typ))
        got(fb, f, g) == reached(fb, f, g, firstErr(err, g.err))
        field(fb, f) == got(fb, f, getFieldValue(v, tInfo.nonPtrType, f.idx))
        from(fb) == IF fb.found THEN Parsed(v, err, fb.d)
                    ELSE field(fb, getDecodingStructType(tInfo.nonPtrType).fields[i + 1])
    IN from(IF hasSize THEN [found |-> ~(i < count), d |-> d] ELSE foundBreak(d))

\* parseArrayToStruct() as it would be if an array of fewer elements than
\* the struct has fields filled the first fields
parseArrayToStructPadding(d, v, tInfo) ==
    LET sType == getDecodingStructType(tInfo.nonPtrType)
        h == getHead(d)
        hasSize == h.ai # 31
        count == IF hasSize THEN IntOfMag(h.val) ELSE numOfItemsUntilBreak(h.d)
    IN
    IF sType.err # NoErr THEN Parsed(v, sType.err, d)
    ELSE IF ~sType.toArray
    THEN Parsed(v, UnmarshalTypeError(nextCBORType(d), tInfo.nonPtrType,
                     "cannot decode CBOR array to struct without toarray option"), skip(d))
    ELSE IF count > Len(sType.fields)
    THEN Parsed(v, UnmarshalTypeError(h.t, tInfo.typ,
                     "cannot decode CBOR array to struct with different number of elements"), skip(d))
    ELSE parseArrayToStructLoop(h.d, hasSize, count, 0, v, tInfo, NoErr)

parseArrayToStruct(d, v, tInfo) ==
    LET sType == getDecodingStructType(tInfo.nonPtrType)
        h == getHead(d)
        hasSize == h.ai # 31
        count == IF hasSize THEN IntOfMag(h.val) ELSE numOfItemsUntilBreak(h.d)
    IN
    IF sType.err # NoErr THEN Parsed(v, sType.err, d)
    ELSE IF ~sType.toArray
    THEN Parsed(v, UnmarshalTypeError(nextCBORType(d), tInfo.nonPtrType,
                     "cannot decode CBOR array to struct without toarray option"), skip(d))
    ELSE IF count # Len(sType.fields)
    THEN Parsed(v, UnmarshalTypeError(h.t, tInfo.typ,
                     "cannot decode CBOR array to struct with different number of elements"), skip(d))
    ELSE parseArrayToStructLoop(h.d, hasSize, count, 0, v, tInfo, NoErr)

\* isImmutableKind(k)
isImmutableKind(k) == k \in {"bool", "int", "uint", "float", "string"}

\* The loop of parseMapToMap.  st holds the cursor d, the map v, the loop
\* index i, the reused keyValue and eleValue (kOK, eOK: whether they have
\* been created), err, keyCount and existingKeys.
parseMapToMapLoop(st, c, tInfo) ==
    LET enforced == st.d.dm.dupMapKey = DupMapKeyEnforcedAPF
        keyIsInterfaceType == tInfo.key = "any"
        stored(keyValue, er, st1, v1) ==
          IF enforced
          THEN IF Len(v1.e) = st.keyCount
               THEN IF keyValue \notin st.existingKeys
                    THEN Parsed([v1 EXCEPT !.e = MapSet(v1.e, keyValue, Zero(tInfo.elem))],
                                DupMapKeyError(keyValue, st.i),
                                skipRestOfMap(er.d, c.hasSize, c.count, st.i + 1))
                    ELSE parseMapToMapLoop([st1 EXCEPT !.v = v1,
                                                       !.existingKeys =
                                                          st.existingKeys \ {keyValue}],
                                           c, tInfo)
               ELSE parseMapToMapLoop([st1 EXCEPT !.v = v1, !.keyCount = Len(v1.e)], c, tInfo)
          ELSE parseMapToMapLoop([st1 EXCEPT !.v = v1], c, tInfo)
        decoded(keyValue, er, st1) ==
          IF er.err # NoErr
          THEN parseMapToMapLoop([st1 EXCEPT !.err = firstErr(st.err, er.err)], c, tInfo)
          ELSE stored(keyValue, er, st1, [st.v EXCEPT !.e = MapSet(st.v.e, keyValue, er.v)])
        element(keyValue, er) ==
          decoded(keyValue, er,
                  [st EXCEPT !.d = er.d, !.i = st.i + 1, !.kOK = TRUE, !.keyValue = keyValue,
                             !.eOK = TRUE, !.eleValue = er.v])
        keyed(kr, keyValue) ==
          IF keyIsInterfaceType /\ keyValue.t # "nil" /\ ~isHashableValue(keyValue)
          THEN parseMapToMapLoop(
                 [st EXCEPT !.d = skip(kr.d), !.i = st.i + 1, !.kOK = TRUE,
                            !.keyValue = keyValue,
                            !.err = firstErr(st.err, errorsNew("cbor: invalid map key type"))],
                 c, tInfo)
          ELSE element(keyValue,
                       parseToValue(kr.d,
                                    IF ~st.eOK \/ ~isImmutableKind(kindOf(tInfo.elem))
                                    THEN Zero(tInfo.elem) ELSE st.eleValue,
                                    tInfo.elem))
        key(kr) ==
          IF kr.err # NoErr
          THEN parseMapToMapLoop([st EXCEPT !.d = skip(kr.d), !.i = st.i + 1, !.kOK = TRUE,
                                            !.keyValue = kr.v,
                                            !.err = firstErr(st.err, kr.err)],
                                 c, tInfo)
          ELSE keyed(kr, IF keyIsInterfaceType /\ kr.v.t = "[]byte"
                            /\ st.d.dm.mapKeyByteString = MapKeyByteStringWrap
                         THEN StrV("ByteString", BytesOf(kr.v)) ELSE kr.v)
        from(fb) ==
          IF fb.found THEN Parsed(st.v, st.err, fb.d)
          ELSE key(parseToValue(fb.d,
                                IF ~st.kOK \/ ~isImmutableKind(kindOf(tInfo.key))
                                THEN Zero(tInfo.key) ELSE st.keyValue,
                                tInfo.key))
    IN from(IF c.hasSize THEN [found |-> ~(st.i < c.count), d |-> st.d] ELSE foundBreak(st.d))

parseMapToMap(d, v, tInfo) ==
    LET h == getHead(d)
        hasSize == h.ai # 31
        v1 == IF v.n = 0 THEN MapV(tInfo.nonPtrType, <<>>) ELSE v
    IN parseMapToMapLoop(
         [d |-> h.d, v |-> v1, i |-> 0, kOK |-> FALSE, keyValue |-> Nil, eOK |-> FALSE,
          eleValue |-> Nil, err |-> NoErr, keyCount |-> Len(v1.e),
          existingKeys |-> IF d.dm.dupMapKey = DupMapKeyEnforcedAPF
                           THEN {v1.e[i].e[1] : i \in 1..Len(v1.e)} ELSE {}],
         [hasSize |-> hasSize, count |-> IntOfMag(h.val)], tInfo)

\* firstField() as it would be if a field that an earlier key has found
\* could be found again
firstFieldAgain(found, matches) ==
    IF \E i \in 1..Len(matches) : matches[i]
    THEN CHOOSE i \in 1..Len(matches) : matches[i] /\ \A k \in 1..(i - 1) : ~matches[k]
    ELSE 0

\* the first field not yet found among those that match, 0 for none;
\* matches[i] tells whether the name of field i matches the key
firstField(found, matches) ==
    IF \E i \in 1..Len(matches) : ~found[i] /\ matches[i]
    THEN CHOOSE i \in 1..Len(matches) :
           /\ ~found[i] /\ matches[i]
           /\ \A k \in 1..(i - 1) : found[k] \/ ~matches[k]
    ELSE 0

\* The key of one entry of parseMapToStruct: cont when the loop continues
\* with the next entry at once, else the matched field fi (0 for none) and
\* the key k kept for duplicate detection.
KeyOf(cont, d, err, fi, k) == [cont |-> cont, d |-> d, err |-> err, fi |-> fi, k |-> k]

mapToStructKey(d, err, fields, found) ==
    LET t == nextCBORType(d)
        enforced == d.dm.dupMapKey = DupMapKeyEnforcedAPF
        text(p) ==
          LET exact == [i \in 1..Len(fields) |->
                          Len(fields[i].name) = Len(p.b) /\ fields[i].name = p.b]
              fold == [i \in 1..Len(fields) |->
                         Len(fields[i].name) = Len(p.b) /\ EqualFold(fields[i].name, p.b)]
              matched(fe) == KeyOf(FALSE, p.d, err,
                                   IF fe # 0 THEN fe ELSE firstField(found, fold),
                                   IF enforced THEN StrV("string", p.b) ELSE Nil)
          IN IF p.err # NoErr THEN KeyOf(TRUE, skip(p.d), firstErr(err, p.err), 0, Nil)
             ELSE matched(firstField(found, exact))
        named(h, nameAsInt) ==
          LET match == [i \in 1..Len(fields) |->
                          fields[i].keyAsInt /\ fields[i].nameAsInt = nameAsInt]
          IN KeyOf(FALSE, h.d, err, firstField(found, match),
                   IF enforced THEN IntV("int64", nameAsInt.neg, nameAsInt.mag) ELSE Nil)
        int(h) ==
          IF t = cborTypeNegativeInt /\ ~MagLE(h.val, MaxInt64)
          THEN KeyOf(TRUE, skip(h.d),
                     firstErr(err, UnmarshalTypeError(t, "int64", "overflows Go's int64")), 0, Nil)
          ELSE named(h, IF t = cborTypePositiveInt THEN int64OfUint64(h.val)
                        ELSE Num(TRUE, MagInc(h.val)))
        err1 == firstErr(err, UnmarshalTypeError(t, "string",
                  "map key cannot be used to match struct field name"))
        hashed(p) ==
          IF p.err # NoErr THEN KeyOf(TRUE, skip(p.d), err1, 0, Nil)
          ELSE IF ~isHashableValue(p.v) THEN KeyOf(TRUE, skip(p.d), err1, 0, Nil)
          ELSE KeyOf(FALSE, p.d, err1, 0, p.v)
    IN CASE t = cborTypeTextString -> text(parseTextString(d))
         [] t <= cborTypeNegativeInt -> int(getHead(d))
         [] OTHER -> IF enforced THEN hashed(parse(d, TRUE))
                     ELSE KeyOf(FALSE, skip(d), err1, 0, Nil)

\* The loop of parseMapToStruct.  st holds the cursor d, the struct v, the
\* index j, err, foundFldIdx, mapKeys and keyCount.
parseMapToStructLoop(st, c, tInfo) ==
    LET fb == IF c.hasSize THEN [found |-> ~(st.j < c.count), d |-> st.d]
              ELSE foundBreak(st.d)
        enforced == st.d.dm.dupMapKey = DupMapKeyEnforcedAPF
        element(st1, f, g, err1, r) ==
          parseMapToStructLoop(
            [st1 EXCEPT !.d = r.d, !.v = setFieldAt(g.v, tInfo.nonPtrType, f.idx, r.v),
                        !.err = IF r.err # NoErr
                                THEN firstErr(err1, withFieldName(r.err, tInfo.nonPtrType, f.name))
                                ELSE err1],
            c, tInfo)
        reached(key, st1, f, g, err1) ==
          IF ~g.valid
          THEN parseMapToStructLoop([st1 EXCEPT !.d = skip(key.d), !.v = g.v, !.err = err1],
                                    c, tInfo)
          ELSE element(st1, f, g, err1,
                       parseToValue(key.d, fieldAt(g.v, tInfo.nonPtrType, f.idx), f.typ))
        got(key, st1, f, g) == reached(key, st1, f, g, firstErr(key.err, g.err))
        field(key, st1, f) == got(key, st1, f, getFieldValue(st.v, tInfo.nonPtrType, f.idx))
        counted(key, fields, keyCount, st1) ==
          IF key.cont
          THEN parseMapToStructLoop([st EXCEPT !.d = key.d, !.j = st.j + 1, !.err = key.err],
                                    c, tInfo)
          ELSE IF enforced /\ keyCount = st.keyCount
          THEN Parsed(st.v, DupMapKeyError(key.k, st.j),
                      skipRestOfMap(skip(key.d), c.hasSize, c.count, st.j + 1))
          ELSE IF key.fi = 0
          THEN IF st.d.dm.extraReturnErrors = ExtraDecErrorUnknownField
               THEN Parsed(st.v, UnknownFieldError(st.j),
                           skipRestOfMap(skip(key.d), c.hasSize, c.count, st.j + 1))
               ELSE parseMapToStructLoop([st1 EXCEPT !.d = skip(key.d)], c, tInfo)
          ELSE field(key, st1, fields[key.fi])
        seen(key, fields, mapKeys, keyCount) ==
          counted(key, fields, keyCount,
                  [st EXCEPT !.j = st.j + 1, !.err = key.err,
                             !.foundFldIdx = [i \in 1..Len(fields) |->
                                                st.foundFldIdx[i] \/ i = key.fi],
                             !.mapKeys = mapKeys, !.keyCount = keyCount])
        kept(key, fields, mapKeys) == seen(key, fields, mapKeys, Cardinality(mapKeys))
        keyed(fields, key) ==
          kept(key, fields, IF enforced THEN st.mapKeys \cup {key.k} ELSE st.mapKeys)
        fields == getDecodingStructType(tInfo.nonPtrType).fields
    IN IF fb.found THEN Parsed(st.v, st.err, fb.d)
       ELSE keyed(fields, mapToStructKey(fb.d, st.err, fields, st.foundFldIdx))

parseMapToStruct(d, v, tInfo) ==
    LET sType == getDecodingStructType(tInfo.nonPtrType)
        h == getHead(d)
    IN
    IF sType.err # NoErr THEN Parsed(v, sType.err, d)
    ELSE IF sType.toArray
    THEN Parsed(v, UnmarshalTypeError(nextCBORType(d), tInfo.nonPtrType,
                     "cannot decode CBOR map to struct with toarray option"), skip(d))
    ELSE parseMapToStructLoop(
           [d |-> h.d, v |-> v, j |-> 0, err |-> NoErr,
            foundFldIdx |-> [i \in 1..Len(sType.fields) |-> FALSE],
            mapKeys |-> {}, keyCount |-> 0],
           [hasSize |-> h.ai # 31, count |-> IntOfMag(h.val)], tInfo)

parseToTag(d, v) ==
    LET t == nextCBORType(d)
        h == getHead(d)
        content(c) == IF c.err # NoErr THEN Parsed(v, c.err, c.d)
                      ELSE Parsed(TagV(h.val, c.v), NoErr, c.d)
    IN IF nextCBORNil(d) THEN Parsed(v, NoErr, skip(d))
       ELSE IF t # cborTypeTag THEN Parsed(v, UnmarshalTypeError(t, "Tag", ""), skip(d))
       ELSE content(parse(h.d, FALSE))

\* d.dm.tags.getTagItemFromType(vt): the item registered for the type, if any
getRegisteredTagItem(d, vt) ==
    IF d.dm.hasTags /\ \E i \in 1..Len(d.dm.tags) : d.dm.tags[i].contentType = vt
    THEN <<d.dm.tags[CHOOSE i \in 1..Len(d.dm.tags) : d.dm.tags[i].contentType = vt]>>
    ELSE <<>>

WrongTagError(tagItem, tagNums) == Err("WrongTagError", "", tagItem.contentType, "", Nil, 0)

\* a check that asks for the registered chain at the head of the tag numbers
validRegisteredTagNumsAtHead(d, registeredTag) ==
    LET tn == tagNumsAt(d, <<>>) IN
    [err |-> IF prefixTagNum(registeredTag.num, tn.nums) THEN NoErr
             ELSE WrongTagError(registeredTag, tn.nums),
     d |-> tn.d]

\* the cursor stops at the tag content
validRegisteredTagNums(d, registeredTag) ==
    LET tn == tagNumsAt(d, <<>>) IN
    [err |-> IF equalTagNum(registeredTag, tn.nums) THEN NoErr
             ELSE WrongTagError(registeredTag, tn.nums),
     d |-> tn.d]

\* parseToValue from "Check registered tag number" on: v of type vt is the
\* value the pointers led to, tInfo the descriptor of the type decoded into.
parseRegistered(d, v, vt, tInfo) ==
    LET checked(r) == IF r.err # NoErr THEN [err |-> r.err, d |-> skip(r.d)] ELSE r
        registered(item, t0) ==
          IF item = <<>> THEN [err |-> NoErr, d |-> d]
          ELSE IF t0 # cborTypeTag
               THEN IF item[1].decTag = DecTagRequired
                    THEN [err |-> UnmarshalTypeError(t0, tInfo.typ, "expect CBOR tag value"),
                          d |-> skip(d)]
                    ELSE [err |-> NoErr, d |-> d]
               ELSE checked(validRegisteredTagNums(d, item[1]))
    IN registered(getRegisteredTagItem(d, tInfo.nonPtrType), nextCBORType(d))

\* parseToValue from the head of the item on: reg is the outcome of the
\* check of the registered tag numbers, its cursor at the item.
parseItem(reg, v, vt, tInfo) ==
    LET np == tInfo.nonPtrType
        d == reg.d
        t == nextCBORType(d)
        h == getHead(d)
        filled(f, e) == Parsed(f.v, f.err, e)
        bytes(b) == IF vt = "ByteString" THEN Parsed(StrV("ByteString", b.b), NoErr, b.d)
                    ELSE filled(fillByteString(t, b.b, v, vt), b.d)
        text(b) == IF b.err # NoErr THEN Parsed(v, b.err, b.d)
                   ELSE filled(fillTextString(t, b.b, v, vt), b.d)
        bignum(b, neg, mag) ==
          IF np = "big.Int" THEN Parsed(bigIntOfBytes(neg, b.b), NoErr, b.d)
          ELSE IF tInfo.nonPtrKind \in {"slice", "array"}
          THEN filled(fillByteString(t, b.b, v, vt), b.d)
          ELSE IF (IF neg THEN MagLE(mag, Pow2Mag(63)) ELSE MagLE(mag, Pow2Less1Mag(64)))
          THEN filled(IF neg THEN fillNegativeInt(t, Num(TRUE, mag), v, vt)
                      ELSE fillPositiveInt(t, mag, v, vt), b.d)
          ELSE Parsed(v, UnmarshalTypeError(t, np, "overflows"), b.d)
        signed(b, neg) == bignum(b, neg, bigIntOfBytes(neg, b.b).s)
    IN
    IF reg.err # NoErr THEN Parsed(v, reg.err, reg.d)
    ELSE
    CASE t = cborTypePositiveInt -> filled(fillPositiveInt(t, h.val, v, vt), h.d)
      [] t = cborTypeNegativeInt ->
           IF ~MagLE(h.val, MaxInt64)
           THEN IF np = "big.Int"
                THEN Parsed(IntV("big.Int", TRUE, MagInc(h.val)), NoErr, h.d)
                ELSE Parsed(v, UnmarshalTypeError(t, np, "overflows Go's int64"), h.d)
           ELSE filled(fillNegativeInt(t, Num(TRUE, MagInc(h.val)), v, vt), h.d)
      [] t = cborTypeByteString -> bytes(parseByteString(d))
      [] t = cborTypeTextString -> text(parseTextString(d))
      [] t = cborTypePrimitives ->
           CASE h.ai < 20 \/ h.ai = 24 -> filled(fillPositiveInt(t, h.val, v, vt), h.d)
             [] h.ai \in {20, 21} -> filled(fillBool(t, h.ai = 21, v, vt), h.d)
             [] h.ai \in {22, 23} -> filled(fillNil(t, v, vt), h.d)
             [] h.ai \in {25, 26, 27} -> Parsed(v, UnmarshalTypeError(t, vt, ""), h.d)
             [] OTHER -> Parsed(v, NoErr, h.d)
      [] t = cborTypeTag ->
           CASE h.val \in {<<2>>, <<3>>} -> signed(parseByteString(h.d), h.val = <<3>>)
             [] OTHER -> parseValue(h.d, v, vt, tInfo)
      [] t = cborTypeArray ->
           CASE tInfo.nonPtrKind = "slice"  -> parseArrayToSlice(d, v, tInfo)
             [] tInfo.nonPtrKind = "array"  -> parseArrayToArray(d, v, tInfo)
             [] tInfo.nonPtrKind = "struct" -> parseArrayToStruct(d, v, tInfo)
             [] OTHER -> Parsed(v, UnmarshalTypeError(t, np, ""), skip(d))
      [] t = cborTypeMap ->
           CASE tInfo.nonPtrKind = "struct" -> parseMapToStruct(d, v, tInfo)
             [] tInfo.nonPtrKind = "map"    -> parseMapToMap(d, v, tInfo)
             [] OTHER -> Parsed(v, UnmarshalTypeError(t, np, ""), skip(d))

parseValue(d0, v, vt, tInfo) ==
    LET np == tInfo.nonPtrType
        d1 == stripSelfDescribed(d0)
        h1 == getHead(d1)
        builtinErr == IF nextCBORType(d1) = cborTypeTag
                      THEN validBuiltinTag(h1.val, cur(h1.d)) ELSE NoErr
        \* "Create new value for the pointer v to point to"
        pointed(r) == Parsed(PtrV(vt, r.v), r.err, r.d)
        pointee(elem) ==
          pointed(parseValue(d0, IF v.n = 0 THEN Zero(elem) ELSE v.e[1], elem, tInfo))
        iface(r) == Parsed(IF r.v.t # "nil" THEN r.v ELSE v, r.err, r.d)
        time(r) == IF r.err # NoErr THEN Parsed(v, r.err, r.d) ELSE Parsed(r.v, NoErr, r.d)
    IN
    IF ~nextCBORNil(d0) /\ kindOf(vt) = "ptr"
    THEN IF v.n = 0 /\ ~CanSet(v)
         THEN Parsed(v, errorsNew("cbor: cannot set new value"), skip(d0))
         ELSE pointee(goType(vt).elem)
    ELSE IF builtinErr # NoErr THEN Parsed(v, builtinErr, skip(h1.d))
    ELSE
    CASE tInfo.spclType = specialTypeEmptyIface -> iface(parse(d1, FALSE))
      [] tInfo.spclType = specialTypeTag -> parseToTag(d1, v)
      [] tInfo.spclType = specialTypeUnmarshalerIface -> parseToUnmarshaler(d1, v, vt)
      [] tInfo.spclType = specialTypeTime ->
           IF nextCBORNil(d1) THEN Parsed(v, NoErr, skip(d1)) ELSE time(parseToTime(d1))
      [] OTHER -> parseItem(parseRegistered(d1, v, vt, tInfo), v, vt, tInfo)

\* parseToValue decodes the item at the cursor into v, a value of type tn
parseToValue(d, v, tn) == parseValue(d, v, tn, getTypeInfo(tn))

(***************************************************************************)
(* The well-formedness pass.  valid() is not part of decode.go; it is      *)
(* modelled from the specification: header consistency, indefinite         *)
(* terminators, nesting and element counts within the limits of the mode.  *)
(***************************************************************************)
ErrUnexpectedEOF == Err("io.ErrUnexpectedEOF", "", "", "", Nil, 0)
SyntaxError(msg) == Err("SyntaxError", "", "", msg, Nil, 0)
MaxNestedLevelError == Err("MaxNestedLevelError", "", "", "", Nil, 0)
MaxArrayElementsError == Err("MaxArrayElementsError", "", "", "", Nil, 0)
MaxMapPairsError == Err("MaxMapPairsError", "", "", "", Nil, 0)
IndefiniteLengthError(t) == Err("IndefiniteLengthError", cborTypeString(t), "", "", Nil, 0)
TagsMdError == Err("TagsMdError", "", "", "", Nil, 0)
InvalidUnmarshalError(msg) == Err("InvalidUnmarshalError", "", "", msg, Nil, 0)

Checked(err, d) == [err |-> err, d |-> d]

\* the bytes left from the cursor on
remaining(d) == Len(d.data) - d.off + 1

\* a count that the data at hand cannot hold is larger than every limit
countExceeds(val, limit) == Len(val) > 3 \/ IntOfMag(val) > limit

validHead(d) ==
    IF remaining(d) < 1 THEN Checked(ErrUnexpectedEOF, d)
    ELSE LET b == cur(d)
             t == (b \div 32) * 32
             ai == b % 32
         IN
         IF ai \in 28..30 THEN Checked(SyntaxError("invalid additional information"), d)
         ELSE IF ai = 31 /\ t \in {cborTypePositiveInt, cborTypeNegativeInt, cborTypeTag}
         THEN Checked(SyntaxError("invalid additional information"), d)
         ELSE IF ai = 31 /\ t = cborTypePrimitives
         THEN Checked(SyntaxError("unexpected break"), d)
         ELSE IF remaining(d) < 1 + argLen(ai) THEN Checked(ErrUnexpectedEOF, d)
         ELSE IF t = cborTypePrimitives /\ ai = 24 /\ d.data[d.off + 1] < 32
         THEN Checked(SyntaxError("invalid simple value"), d)
         ELSE IF ai = 31 /\ d.dm.indefLength = IndefLengthForbidden
         THEN Checked(IndefiniteLengthError(t), d)
         ELSE Checked(NoErr, getHead(d).d)

RECURSIVE validInternal(_, _), validItems(_, _, _), validUntilBreak(_, _, _, _), validChunks(_, _)

\* the chunks of an indefinite-length string of type t, up to the break
validChunks(d, t) ==
    LET chunk(h) ==
          IF h.t # t THEN Checked(SyntaxError("wrong chunk type"), d)
          ELSE IF h.ai = 31 THEN Checked(SyntaxError("indefinite-length chunk"), d)
          ELSE IF Len(h.val) > 3 \/ remaining(h.d) < IntOfMag(h.val)
          THEN Checked(ErrUnexpectedEOF, d)
          ELSE validChunks(adv(h.d, IntOfMag(h.val)), t)
        checked(c) == IF c.err # NoErr THEN c ELSE chunk(getHead(d))
    IN IF remaining(d) < 1 THEN Checked(ErrUnexpectedEOF, d)
       ELSE IF cur(d) = 255 THEN Checked(NoErr, adv(d, 1))
       ELSE checked(validHead(d))

\* n more items, each at nesting level depth
validItems(d, n, depth) ==
    LET checked(c) == IF c.err # NoErr THEN c ELSE validItems(c.d, n - 1, depth)
    IN IF n = 0 THEN Checked(NoErr, d) ELSE checked(validInternal(d, depth))

\* the items of an indefinite-length array or map, up to the break; i counts
\* the items seen
validUntilBreak(d, t, i, depth) ==
    LET checked(c) == IF c.err # NoErr THEN c ELSE validUntilBreak(c.d, t, i + 1, depth)
    IN IF remaining(d) < 1 THEN Checked(ErrUnexpectedEOF, d)
       ELSE IF cur(d) = 255
       THEN IF t = cborTypeMap /\ i % 2 = 1 THEN Checked(SyntaxError("unexpected break"), d)
            ELSE Checked(NoErr, adv(d, 1))
       ELSE IF t = cborTypeArray /\ i >= d.dm.maxArrayElements
       THEN Checked(MaxArrayElementsError, d)
       ELSE IF t = cborTypeMap /\ i >= 2 * d.dm.maxMapPairs THEN Checked(MaxMapPairsError, d)
       ELSE checked(validInternal(d, depth))

\* one data item whose enclosing containers and tags number depth
validInternal(d, depth) ==
    LET item(h) ==
          CASE h.t \in {cborTypeByteString, cborTypeTextString} ->
                 IF h.ai = 31 THEN validChunks(h.d, h.t)
                 ELSE IF Len(h.val) > 3 \/ remaining(h.d) < IntOfMag(h.val)
                      THEN Checked(ErrUnexpectedEOF, d)
                      ELSE Checked(NoErr, adv(h.d, IntOfMag(h.val)))
            [] h.t \in {cborTypeArray, cborTypeMap} ->
                 IF depth + 1 > d.dm.maxNestedLevels THEN Checked(MaxNestedLevelError, d)
                 ELSE IF h.ai = 31 THEN validUntilBreak(h.d, h.t, 0, depth + 1)
                 ELSE IF h.t = cborTypeArray /\ countExceeds(h.val, d.dm.maxArrayElements)
                 THEN Checked(MaxArrayElementsError, d)
                 ELSE IF h.t = cborTypeMap /\ countExceeds(h.val, d.dm.maxMapPairs)
                 THEN Checked(MaxMapPairsError, d)
                 ELSE validItems(h.d,
                                 IF h.t = cborTypeMap THEN 2 * IntOfMag(h.val)
                                 ELSE IntOfMag(h.val),
                                 depth + 1)
            [] h.t = cborTypeTag ->
                 IF d.dm.tagsMd = TagsForbidden THEN Checked(TagsMdError, d)
                 ELSE IF depth + 1 > d.dm.maxNestedLevels THEN Checked(MaxNestedLevelError, d)
                 ELSE validInternal(h.d, depth + 1)
            [] OTHER -> Checked(NoErr, h.d)
        checked(c) == IF c.err # NoErr THEN c ELSE item(getHead(d))
    IN checked(validHead(d))

\* d.valid(): the error of the pass, and the cursor where it stopped
valid(d) == validInternal(d, 0)

(***************************************************************************)
(* Unmarshal.  A call yields the target after the call (a pointer is the   *)
(* value it points to, so the pointee after the call is the e[1] of v),    *)
(* the error, the cursor, and whether parseToValue was entered.            *)
(***************************************************************************)
Result(v, err, d, entered) == [v |-> v, err |-> err, d |-> d, entered |-> entered]

\* value() as it would be if a failed pass cleared what v points to
valueClearing(d, v) ==
    LET err == valid(d).err
        parsed(r) == Result(PtrV(v.t, r.v), r.err, r.d, TRUE)
    IN IF v.t = "nil" THEN Result(v, InvalidUnmarshalError("cbor: Unmarshal(nil)"), d, FALSE)
       ELSE IF kindOf(v.t) # "ptr"
       THEN Result(v, InvalidUnmarshalError("cbor: Unmarshal(non-pointer)"), d, FALSE)
       ELSE IF v.n = 0
       THEN Result(v, InvalidUnmarshalError("cbor: Unmarshal(nil pointer)"), d, FALSE)
       ELSE IF err # NoErr THEN Result(PtrV(v.t, Zero(goType(v.t).elem)), err, d, FALSE)
       ELSE parsed(parseToValue(d, v.e[1], goType(v.t).elem))

value(d, v) ==
    LET err == valid(d).err
        parsed(r) == Result(PtrV(v.t, r.v), r.err, r.d, TRUE)
    IN IF v.t = "nil" THEN Result(v, InvalidUnmarshalError("cbor: Unmarshal(nil)"), d, FALSE)
       ELSE IF kindOf(v.t) # "ptr"
       THEN Result(v, InvalidUnmarshalError("cbor: Unmarshal(non-pointer)"), d, FALSE)
       ELSE IF v.n = 0
       THEN Result(v, InvalidUnmarshalError("cbor: Unmarshal(nil pointer)"), d, FALSE)
       ELSE IF err # NoErr THEN Result(v, err, d, FALSE)
       ELSE parsed(parseToValue(d, v.e[1], goType(v.t).elem))

\* dm.Unmarshal(data, v)
Unmarshal(dm, data, v) == value(decoder(data, dm), v)

(***************************************************************************)
(* encode_test.go: encodeCborHeader, the head of type t with argument n in *)
(* the fewest bytes.  n is a magnitude without leading zeros.              *)
(***************************************************************************)
\* encodeCborHeader() as it would be if an argument below 256 always took
\* one byte after the initial byte
encodeCborHeaderWide(t, n) ==
    IF Len(n) <= 1 THEN <<t + 24, IntOfMag(n)>>
    ELSE IF Len(n) = 2 THEN <<t + 25>> \o n
    ELSE IF Len(n) <= 4 THEN <<t + 26>> \o Pad(n, 4)
    ELSE <<t + 27>> \o Pad(n, 8)

\* encodeCborHeader() as it would be if every argument above 23 took eight
\* bytes after the initial byte
encodeCborHeaderEight(t, n) ==
    IF MagLE(n, <<23>>) THEN <<t + IntOfMag(n)>> ELSE <<t + 27>> \o Pad(n, 8)

encodeCborHeader(t, n) ==
    CASE MagLE(n, <<23>>)              -> <<t + IntOfMag(n)>>
      [] MagLE(n, Pow2Less1Mag(8))     -> <<t + 24>> \o n
      [] MagLE(n, Pow2Less1Mag(16))    -> <<t + 25>> \o Pad(n, 2)
      [] MagLE(n, Pow2Less1Mag(32))    -> <<t + 26>> \o Pad(n, 4)
      [] OTHER                         -> <<t + 27>> \o Pad(n, 8)

RECURSIVE Concat(_)
\* the concatenation of a sequence of byte strings
Concat(ss) == IF ss = <<>> THEN <<>> ELSE Head(ss) \o Concat(Tail(ss))

RECURSIVE MagDec(_)
\* m - 1 for m > 0
MagDec(m) == IF m[Len(m)] > 0
             THEN MagNorm(Append(SubSeq(m, 1, Len(m) - 1), m[Len(m)] - 1))
             ELSE MagNorm(Append(MagDec(SubSeq(m, 1, Len(m) - 1)), 255))

(***************************************************************************)
(* The encoder.  Its source is not part of the repository files at hand;   *)
(* it is modelled from the specification and from the byte strings the     *)
(* tests of encode_test.go expect.                                         *)
(***************************************************************************)
SortNone == "SortNone"
SortLengthFirst == "SortLengthFirst"
SortBytewiseLexical == "SortBytewiseLexical"
SortCanonical == SortLengthFirst
SortCTAP2 == SortBytewiseLexical
SortCoreDeterministic == SortBytewiseLexical

BigIntConvertShortest == "BigIntConvertShortest"
BigIntConvertNone == "BigIntConvertNone"

\* EncOptions{Sort: sort}.EncMode(); BigIntConvert has its zero value
encMode(sort) == [sort |-> sort, bigIntConvert |-> BigIntConvertShortest]

\* a is before b bytewise: at the first difference a is smaller, or a is a
\* proper prefix of b
bytewiseLess(a, b) ==
    \/ \E i \in 1..Len(a) : /\ i <= Len(b) /\ a[i] < b[i]
                            /\ \A k \in 1..(i - 1) : a[k] = b[k]
    \/ Len(a) < Len(b) /\ \A k \in 1..Len(a) : a[k] = b[k]

lengthFirstLess(a, b) == Len(a) < Len(b) \/ (Len(a) = Len(b) /\ bytewiseLess(a, b))

keyLess(sort, a, b) == IF sort = SortLengthFirst THEN lengthFirstLess(a, b) ELSE bytewiseLess(a, b)

RECURSIVE insertSorted(_, _, _)
\* x goes after the entries that are not after it
insertSorted(sort, x, sorted) ==
    IF sorted = <<>> THEN <<x>>
    ELSE IF keyLess(sort, x.k, Head(sorted).k) THEN <<x>> \o sorted
         ELSE <<Head(sorted)>> \o insertSorted(sort, x, Tail(sorted))

RECURSIVE sortEntries(_, _)
\* The entries, each the encoded key k and the encoded value v, in the
\* order of the mode; entries with equal keys keep the order they came in.
\* sortEntries() as it would be if it left the entries as they come
sortEntriesKeeping(sort, entries) == entries

sortEntries(sort, entries) ==
    IF sort = SortNone \/ entries = <<>> THEN entries
    ELSE insertSorted(sort, entries[Len(entries)],
                      sortEntries(sort, SubSeq(entries, 1, Len(entries) - 1)))

\* omit-empty: zero number, false, empty string, nil or empty collection,
\* nil pointer or interface
isEmptyValue(v, tn) ==
    LET of(kind) ==
          CASE kind \in {"int", "uint"}   -> v.s = <<>>
            [] kind = "bool"              -> v.n = 0
            [] kind = "string"            -> v.s = <<>>
            [] kind \in {"slice", "map", "array"} -> v.e = <<>>
            [] kind = "ptr"               -> v.n = 0
            [] kind = "interface"         -> v.t = "nil"
            [] OTHER                      -> FALSE
    IN of(kindOf(tn))

RECURSIVE fieldReachable(_, _, _)
\* no embedded pointer on the index path is nil
fieldReachable(v, vt, idx) ==
    LET n == idx[1] + 1
        embedded(gf, ty) ==
          IF ty.kind = "ptr"
          THEN v.e[n].n = 1 /\ fieldReachable(v.e[n].e[1], ty.elem, Tail(idx))
          ELSE fieldReachable(v.e[n], gf.typ, Tail(idx))
        field(gf) == embedded(gf, goType(gf.typ))
    IN IF Len(idx) = 1 THEN TRUE ELSE field(goType(vt).layout[n])

encodeNil == <<246>>

\* a big integer v: under BigIntConvertShortest as an integer when
\* -2^64 <= v <= 2^64 - 1; else tag 2 over the bytes of v, or tag 3 over
\* the bytes of -1 - v, without leading zeros
encodeBigInt(em, v) ==
    LET neg == v.n = 1
        arg(n) ==
          IF em.bigIntConvert = BigIntConvertShortest /\ Len(n) <= 8
          THEN encodeCborHeader(IF neg THEN cborTypeNegativeInt ELSE cborTypePositiveInt, n)
          ELSE <<cborTypeTag + (IF neg THEN 3 ELSE 2)>>
               \o encodeCborHeader(cborTypeByteString, MagOfInt(Len(n))) \o n
    IN arg(IF neg THEN MagDec(v.s) ELSE v.s)

RECURSIVE encode(_, _, _)

\* the entries of a struct encoded as a map, in declaration order
encodeStructEntries(em, v, tn) ==
    LET entry(f) ==
          [k |-> IF f.keyAsInt
                 THEN IF f.nameAsInt.neg
                      THEN encodeCborHeader(cborTypeNegativeInt, MagDec(f.nameAsInt.mag))
                      ELSE encodeCborHeader(cborTypePositiveInt, f.nameAsInt.mag)
                 ELSE encodeCborHeader(cborTypeTextString, MagOfInt(Len(f.name))) \o f.name,
           v |-> encode(em, fieldAt(v, tn, f.idx), f.typ)]
        entries(fields, kept) == [j \in 1..Len(kept) |-> entry(fields[kept[j]])]
        omitted(f) == f.omitEmpty /\ isEmptyValue(fieldAt(v, tn, f.idx), f.typ)
        of(fields) ==
          entries(fields,
                  SelectSeq([i \in 1..Len(fields) |-> i],
                            LAMBDA i : /\ fieldReachable(v, tn, fields[i].idx)
                                       /\ ~omitted(fields[i])))
    IN of(getDecodingStructType(tn).fields)

\* encodeStruct() as it would be if a toarray struct left out the elements
\* that a struct encoded as a map leaves out: empty fields with omitempty
\* and fields behind a nil embedded pointer
encodeStructOmitting(em, v, tn) ==
    LET asMap(entries) ==
          encodeCborHeader(cborTypeMap, MagOfInt(Len(entries)))
          \o Concat([i \in 1..Len(entries) |-> entries[i].k \o entries[i].v])
        asArray(entries) ==
          encodeCborHeader(cborTypeArray, MagOfInt(Len(entries)))
          \o Concat([i \in 1..Len(entries) |-> entries[i].v])
    IN IF getDecodingStructType(tn).toArray
       THEN asArray(encodeStructEntries(em, v, tn))
       ELSE asMap(sortEntries(em.sort, encodeStructEntries(em, v, tn)))

encodeStruct(em, v, tn) ==
    LET st == getDecodingStructType(tn)
        asMap(entries) ==
          encodeCborHeader(cborTypeMap, MagOfInt(Len(entries)))
          \o Concat([i \in 1..Len(entries) |-> entries[i].k \o entries[i].v])
        element(f) == IF fieldReachable(v, tn, f.idx)
                      THEN encode(em, fieldAt(v, tn, f.idx), f.typ)
                      ELSE encodeNil
    IN IF st.toArray
       THEN encodeCborHeader(cborTypeArray, MagOfInt(Len(st.fields)))
            \o Concat([i \in 1..Len(st.fields) |-> element(st.fields[i])])
       ELSE asMap(sortEntries(em.sort, encodeStructEntries(em, v, tn)))

encodeMap(em, v, tn) ==
    LET asMap(entries) ==
          encodeCborHeader(cborTypeMap, MagOfInt(Len(entries)))
          \o Concat([i \in 1..Len(entries) |-> entries[i].k \o entries[i].v])
        of(ty) ==
          asMap(sortEntries(em.sort,
                            [i \in 1..Len(v.e) |-> [k |-> encode(em, v.e[i].e[1], ty.key),
                                                    v |-> encode(em, v.e[i].e[2], ty.elem)]]))
    IN IF v.n = 0 THEN encodeNil ELSE of(goType(tn))

\* the encoding of the value v of static type tn
encode(em, v, tn) ==
    LET kind == kindOf(tn)
        elements(elem) ==
          encodeCborHeader(cborTypeArray, MagOfInt(Len(v.e)))
          \o Concat([i \in 1..Len(v.e) |-> encode(em, v.e[i], elem)])
    IN CASE kind = "interface" -> IF v.t = "nil" THEN encodeNil ELSE encode(em, v, v.t)
         [] kind = "ptr"  -> IF v.n = 0 THEN encodeNil ELSE encode(em, v.e[1], goType(tn).elem)
         [] kind \in {"int", "uint"} ->
              IF v.n = 1 THEN encodeCborHeader(cborTypeNegativeInt, MagDec(v.s))
              ELSE encodeCborHeader(cborTypePositiveInt, v.s)
         [] kind = "bool" -> IF v.n = 1 THEN <<245>> ELSE <<244>>
         [] tn = "ByteString" ->
              encodeCborHeader(cborTypeByteString, MagOfInt(Len(v.s))) \o v.s
         [] kind = "string" ->
              encodeCborHeader(cborTypeTextString, MagOfInt(Len(v.s))) \o v.s
         [] kind = "slice" ->
              IF v.n = 0 THEN encodeNil
              ELSE IF goType(tn).elem = "uint8"
              THEN encodeCborHeader(cborTypeByteString, MagOfInt(Len(v.e))) \o BytesOf(v)
              ELSE elements(goType(tn).elem)
         [] kind = "array" -> elements(goType(tn).elem)
         [] kind = "map"  -> encodeMap(em, v, tn)
         [] tn = "Tag" -> encodeCborHeader(cborTypeTag, v.s) \o encode(em, v.e[1], "any")
         [] tn = "big.Int" -> encodeBigInt(em, v)
         [] OTHER -> encodeStruct(em, v, tn)

\* em.Marshal(v)
Marshal(em, v, tn) == encode(em, v, tn)

(***************************************************************************)
(* CBOR data items as they are put on the wire.  An item is written as a   *)
(* value of the shape of GV:                                               *)
(*   "uint" n, "nint" -1-n   s = n                                         *)
(*   "text", "bytes"         s = the bytes                                 *)
(*   "array"                 n = 1 when indefinite, e = the items          *)
(*   "map"                   n = 1 when indefinite, e = the entries, each  *)
(*                           a pair of items                               *)
(*   "tag"                   s = the tag number, e = <<content>>           *)
(*   "prim"                  s = <<ai>>: false 20, true 21, null 22,       *)
(*                           undefined 23                                  *)
(*   "raw"                   s = bytes taken as they are                   *)
(***************************************************************************)
WUint(i) == GV("uint", 0, MagOfInt(i), <<>>)
WNint(i) == GV("nint", 0, MagOfInt(i), <<>>)
WText(b) == GV("text", 0, b, <<>>)
WBytes(b) == GV("bytes", 0, b, <<>>)
WArray(indef, items) == GV("array", IF indef THEN 1 ELSE 0, <<>>, items)
WMap(indef, entries) == GV("map", IF indef THEN 1 ELSE 0, <<>>, entries)
WTag(num, content) == GV("tag", 0, MagOfInt(num), <<content>>)
WPrim(ai) == GV("prim", 0, <<ai>>, <<>>)
WRaw(b) == GV("raw", 0, b, <<>>)
\* integers whose argument is given as a magnitude
WUintMag(m) == GV("uint", 0, m, <<>>)
WNintMag(m) == GV("nint", 0, m, <<>>)
WNull == WPrim(22)
WUndefined == WPrim(23)

RECURSIVE wire(_)
\* the bytes of an item, every head in its shortest form
wire(w) ==
    CASE w.t = "uint"  -> encodeCborHeader(cborTypePositiveInt, w.s)
      [] w.t = "nint"  -> encodeCborHeader(cborTypeNegativeInt, w.s)
      [] w.t = "text"  -> encodeCborHeader(cborTypeTextString, MagOfInt(Len(w.s))) \o w.s
      [] w.t = "bytes" -> encodeCborHeader(cborTypeByteString, MagOfInt(Len(w.s))) \o w.s
      [] w.t = "array" ->
           IF w.n = 1 THEN <<cborTypeArray + 31>> \o Concat([i \in 1..Len(w.e) |-> wire(w.e[i])]) \o <<255>>
           ELSE encodeCborHeader(cborTypeArray, MagOfInt(Len(w.e)))
                \o Concat([i \in 1..Len(w.e) |-> wire(w.e[i])])
      [] w.t = "map" ->
           LET body == Concat([i \in 1..Len(w.e) |-> wire(w.e[i].e[1]) \o wire(w.e[i].e[2])]) IN
           IF w.n = 1 THEN <<cborTypeMap + 31>> \o body \o <<255>>
           ELSE encodeCborHeader(cborTypeMap, MagOfInt(Len(w.e))) \o body
      [] w.t = "tag"   -> encodeCborHeader(cborTypeTag, w.s) \o wire(w.e[1])
      [] w.t = "prim"  -> <<cborTypePrimitives + w.s[1]>>
      [] OTHER         -> w.s

(***************************************************************************)
(* reflect.DeepEqual: maps are equal when they hold the same entries,      *)
(* whatever the order they were stored in.                                 *)
(***************************************************************************)
RECURSIVE DeepEqual(_, _)
DeepEqual(a, b) ==
    /\ a.t = b.t /\ a.n = b.n /\ a.s = b.s /\ Len(a.e) = Len(b.e)
    /\ IF a.t \in {"map[string]uint8", "map[int]int", "map[any]any", "map[any]bool"}
       THEN \A i \in 1..Len(a.e) : \E j \in 1..Len(b.e) :
               DeepEqual(a.e[i].e[1], b.e[j].e[1]) /\ DeepEqual(a.e[i].e[2], b.e[j].e[2])
       ELSE \A i \in 1..Len(a.e) : DeepEqual(a.e[i], b.e[i])

(***************************************************************************)
(* The inputs of the calls.  The bounds below give the sizes of the maps   *)
(* and arrays that are generated and the number of calls on one target.    *)
(***************************************************************************)
MaxEntries == 3
MaxElems == 3
MaxCalls == 2

\* the sequences over S of length at most n
SeqsUpTo(S, n) == UNION {[1..k -> S] : k \in 0..n}

\* The value of the j-th entry or element: the integer j, which every
\* numeric target holds, or a value a narrow integer target refuses.
ValueOf(kind, j) ==
    CASE kind = "text" -> WText(<<120>>)
      [] kind = "big"  -> WUint(300)
      [] kind = "null" -> WNull
      [] OTHER         -> WUint(j)

\* for n entries: all values good, one of them refused, or two of them
\* refused with different errors
ValuePatterns(n) ==
    {[j \in 1..n |-> "good"]}
    \cup {[j \in 1..n |-> IF j = p THEN "text" ELSE "good"] : p \in 1..n}
    \cup {[j \in 1..n |-> IF j = p THEN "text" ELSE IF j = q THEN "big" ELSE "good"] :
            p \in 1..n, q \in 1..n}

\* the maps with the keys of K in every order and number, their values good
KeyedMaps(K) ==
    {WMap(FALSE, [j \in 1..Len(ks) |-> PairV(ks[j], WUint(j))]) : ks \in SeqsUpTo(K, MaxEntries)}

\* the maps with the keys of K, their values after the patterns, and with
\* good values as an indefinite-length map as well
PatternMaps(K) ==
    UNION {{WMap(FALSE, [j \in 1..Len(ks) |-> PairV(ks[j], ValueOf(vp[j], j))]) :
              vp \in ValuePatterns(Len(ks))} \cup {WMap(TRUE, [j \in 1..Len(ks) |-> PairV(ks[j], WUint(j))])} :
           ks \in SeqsUpTo(K, MaxEntries)}

\* "a", "A" and "z": the struct of the model has the fields "a" and "A"
MapItems ==
    KeyedMaps({WText(<<97>>), WText(<<65>>), WText(<<122>>)}) \cup PatternMaps({WText(<<97>>), WText(<<122>>)})

GoMapItems == PatternMaps({WText(<<97>>), WText(<<122>>)})

\* arrays of the patterns, and with a null among good elements
ArrayItems ==
    UNION {{WArray(indef, [j \in 1..n |-> ValueOf(vp[j], j)]) :
              indef \in BOOLEAN,
              vp \in ValuePatterns(n) \cup {[j \in 1..n |-> IF j = p THEN "null" ELSE "good"] : p \in 1..n}} :
           n \in 0..MaxElems}

\* a text string that is not UTF-8
BadText == WText(<<255>>)
\* the negative integer -1 - (2^64 - 1), below every int64
NintOverflow == GV("nint", 0, <<255, 255, 255, 255, 255, 255, 255, 255>>, <<>>)

ScalarItems ==
    {WUint(5), WUint(300), WNint(0), WText(<<97>>), BadText, WBytes(<<1, 2>>), WNull, WUndefined,
     WPrim(21), WTag(55799, WNull), WTag(55799, WUint(5)), WTag(100, WUint(5))}

\* maps for a struct target: integer keys, keys that are neither text nor
\* integer, keys that fail to decode
StructKeyItems ==
    {WMap(FALSE, <<PairV(WUint(1), WUint(1))>>),
     WMap(FALSE, <<PairV(WUint(1), WUint(1)), PairV(WUint(1), WUint(2))>>),
     WMap(FALSE, <<PairV(WText(<<97>>), WUint(1)), PairV(WUint(2), WUint(2)), PairV(WText(<<98>>), WUint(3))>>),
     WMap(FALSE, <<PairV(WPrim(20), WUint(1)), PairV(WText(<<97>>), WUint(2))>>),
     WMap(FALSE, <<PairV(WPrim(20), WUint(1)), PairV(WPrim(20), WUint(2))>>),
     WMap(FALSE, <<PairV(BadText, WUint(1)), PairV(WText(<<97>>), WUint(2))>>),
     WMap(FALSE, <<PairV(BadText, WUint(1)), PairV(BadText, WUint(2))>>),
     WMap(FALSE, <<PairV(NintOverflow, WUint(1)), PairV(NintOverflow, WUint(2))>>),
     WMap(TRUE, <<PairV(WText(<<98>>), WUint(300)), PairV(WText(<<122>>), WUint(2)),
                  PairV(WText(<<97>>), WUint(3))>>),
     WMap(FALSE, <<PairV(WText(<<98>>), WText(<<120>>)), PairV(WText(<<98>>), WUint(2))>>),
     WMap(FALSE, <<PairV(WText(<<97>>), WUint(1)), PairV(WText(<<65>>), WNull),
                   PairV(WText(<<98>>), WUndefined)>>)}

\* maps for a Go map or an interface: keys a Go map cannot hold, values
\* that fail in a generic target
GenericMapItems ==
    {WMap(FALSE, <<PairV(WUint(1), WUint(1)), PairV(WUint(1), WUint(2))>>),
     WMap(FALSE, <<PairV(WText(<<97>>), BadText), PairV(WText(<<97>>), WUint(2))>>),
     WMap(FALSE, <<PairV(WText(<<97>>), BadText), PairV(WText(<<98>>), WUint(2)),
                   PairV(WText(<<97>>), WUint(3)), PairV(WText(<<98>>), WUint(4))>>),
     WMap(FALSE, <<PairV(WArray(FALSE, <<WUint(1)>>), WUint(1)), PairV(WArray(FALSE, <<WUint(1)>>), WUint(2))>>),
     WMap(FALSE, <<PairV(WBytes(<<1>>), WUint(1)), PairV(WBytes(<<1>>), WUint(2))>>),
     WMap(TRUE, <<PairV(WPrim(21), WUint(1)), PairV(WPrim(21), WUint(2)), PairV(WUint(0), WUint(3))>>),
     WMap(FALSE, <<PairV(WText(<<97>>), WUint(1)), PairV(WText(<<98>>), WNull)>>)}

\* arrays with arrays and maps in them
NestedItems ==
    {WArray(FALSE, <<WArray(FALSE, <<BadText, WUint(1)>>), WUint(2)>>),
     WArray(FALSE, <<WUint(1), WArray(TRUE, <<WUint(2), BadText>>), BadText, WUint(4)>>),
     WArray(FALSE, <<WMap(FALSE, <<PairV(WText(<<97>>), BadText), PairV(WText(<<98>>), WUint(1))>>)>>)}

\* TestMarshalUnmarshalStructToArray: arrays of as many items as T has fields
ToArrayItems ==
    {WArray(indef, <<WUint(24), WMap(FALSE, <<PairV(WText(<<77>>), WUint(1))>>), WUint(2), x, y>>) :
       indef \in BOOLEAN, x \in {WUint(3), WNull, WText(<<120>>)}, y \in {WUint(4), WNull}}
    \cup {WArray(FALSE, <<WUint(0), WMap(FALSE, <<>>), WUint(0), WNull, WNull>>),
          WArray(FALSE, <<WText(<<120>>), WUint(300), WUint(2), WUint(3), WUint(4)>>),
          WMap(FALSE, <<PairV(WText(<<65>>), WUint(1))>>)}

RECURSIVE Nested(_, _)
\* w inside k arrays of one item
Nested(w, k) == IF k = 0 THEN w ELSE WArray(FALSE, <<Nested(w, k - 1)>>)

\* input that is not well-formed, and input beyond the limits of LimitOptions
MalformedItems ==
    {WRaw(<<>>), WRaw(<<130, 1>>), WRaw(<<28>>), WRaw(<<255>>), WRaw(<<95, 65, 1>>),
     WRaw(<<161, 1>>), WRaw(<<191, 1, 255>>), WRaw(<<130, 1, 28>>), WRaw(<<248, 1>>),
     WRaw(<<127, 65, 1, 255>>), WRaw(<<25, 1>>), WRaw(<<98, 97>>), WRaw(<<216>>)}

\* nesting at and beyond the limit, and what the limits leave alone
NestedLimitItems ==
    {Nested(WUint(1), minMaxNestedLevels + 1), Nested(WUint(1), minMaxNestedLevels),
     WArray(TRUE, <<WUint(1)>>), WText(<<97>>)}

\* more elements and more pairs than the limits allow
OverLimitItems ==
    {WArray(FALSE, [j \in 1..(minMaxArrayElements + 1) |-> WUint(j)]),
     WArray(TRUE, [j \in 1..(minMaxArrayElements + 1) |-> WUint(j)]),
     WMap(FALSE, [j \in 1..(minMaxMapPairs + 1) |-> PairV(WUint(j), WUint(j))])}

\* the arguments on both sides of the limits of 8, 32 and 64 bits
IntArgs ==
    {<<>>, <<5>>, Pow2Less1Mag(7), Pow2Mag(7), Pow2Less1Mag(8), Pow2Mag(8), Pow2Less1Mag(31),
     Pow2Mag(31), Pow2Less1Mag(32), Pow2Mag(32), Pow2Less1Mag(63), Pow2Mag(63), Pow2Less1Mag(64)}

IntItems == {WUintMag(m) : m \in IntArgs} \cup {WNintMag(m) : m \in IntArgs}

\* tag 2 and tag 3 over byte strings: empty, with a leading zero, of 2^64 - 1
\* and of 2^64
BigItems ==
    {WTag(k, WBytes(b)) : k \in {2, 3},
                          b \in {<<>>, <<3, 232>>, <<0, 5>>, Pow2Less1Mag(64), Pow2Mag(64)}}

IntTypes == {"int8", "uint8", "int32", "uint32", "int64", "uint64", "int"}

RECURSIVE SelfDescribed(_, _)
\* w inside k tags of number 55799
SelfDescribed(w, k) == IF k = 0 THEN w ELSE GV("tag", 0, selfDescribedCBORTagNum, <<SelfDescribed(w, k - 1)>>)

\* items of every major type, in one and in two self-described tags
SelfDescribedItems ==
    {SelfDescribed(w, k) :
       w \in {WUint(5), WNint(0), WText(<<97>>), WBytes(<<1, 2>>), WNull, WUndefined, WPrim(21),
              WArray(FALSE, <<WUint(1), WUint(2)>>), WArray(TRUE, <<WNull>>),
              WMap(FALSE, <<PairV(WText(<<97>>), WUint(1))>>), WTag(100, WUint(5)),
              WTag(2, WBytes(<<1, 0>>))},
       k \in 1..2}

\* *T2, with values that are integers, null and text, and arrays of two
Ptr8Values == {WUint(2), WNull, WText(<<97>>)}
Ptr8Items ==
    {WMap(FALSE, <<>>), WMap(FALSE, <<PairV(WText(<<90>>), WUint(1))>>)}
    \cup {WMap(FALSE, <<PairV(WText(<<89>>), y)>>) : y \in Ptr8Values}
    \cup {WMap(FALSE, <<PairV(WText(<<88>>), WUint(1)), PairV(WText(<<89>>), y)>>) : y \in Ptr8Values}
    \cup {WMap(FALSE, <<PairV(WText(<<89>>), y), PairV(WText(<<88>>), WUint(1))>>) : y \in Ptr8Values}
    \cup {WArray(FALSE, <<x, y>>) : x \in {WUint(1), WNull}, y \in Ptr8Values}

\* maps with an entry for every name that the types of structFields
\* declare at some depth
EmbeddedItems ==
    {WMap(FALSE, <<PairV(WText(<<88>>), WUint(6))>>),
     WMap(FALSE, <<PairV(WText(<<89>>), WUint(5)), PairV(WText(<<88>>), WUint(6))>>),
     WMap(FALSE, <<PairV(WText(<<90>>), WUint(9)), PairV(WText(<<88>>), WUint(1)),
                   PairV(WText(<<89>>), WUint(3))>>),
     WMap(FALSE, <<PairV(WText(<<83>>), WText(<<84, 50>>))>>),
     WMap(FALSE, <<PairV(WText(<<83>>), WText(<<84, 50>>)), PairV(WText(<<88>>), WText(<<84, 51>>))>>)}

QuietOptions == DecOptions(DupMapKeyQuiet, IntDecConvertNone, MapKeyByteStringFail, ExtraDecErrorNone)
EnforcedOptions ==
    DecOptions(DupMapKeyEnforcedAPF, IntDecConvertNone, MapKeyByteStringFail, ExtraDecErrorNone)
QuietUnknownOptions ==
    DecOptions(DupMapKeyQuiet, IntDecConvertNone, MapKeyByteStringFail, ExtraDecErrorUnknownField)
EnforcedUnknownOptions ==
    DecOptions(DupMapKeyEnforcedAPF, IntDecConvertNone, MapKeyByteStringFail, ExtraDecErrorUnknownField)
SignedOptions ==
    DecOptions(DupMapKeyQuiet, IntDecConvertSigned, MapKeyByteStringFail, ExtraDecErrorNone)
WrapOptions ==
    DecOptions(DupMapKeyEnforcedAPF, IntDecConvertNone, MapKeyByteStringWrap, ExtraDecErrorNone)
\* the smallest limits decMode() accepts, and no indefinite-length items
LimitOptions ==
    [QuietOptions EXCEPT !.MaxNestedLevels = minMaxNestedLevels,
                         !.MaxArrayElements = minMaxArrayElements,
                         !.MaxMapPairs = minMaxMapPairs, !.IndefLength = IndefLengthForbidden]

\* every limit given, and a map type for the maps decoded into an interface
DefaultMapOptions ==
    [LimitOptions EXCEPT !.IndefLength = IndefLengthAllowed, !.DefaultMapType = "map[string]uint8"]

AllStructOptions == {QuietOptions, EnforcedOptions, QuietUnknownOptions, EnforcedUnknownOptions}

\* a pointer to a zero value of type tn, as "var v T; Unmarshal(data, &v)"
Fresh(tn) == PtrV(PointerTo(tn), Zero(tn))

\* T{}, T{t1: &t1{}}, T{T2: &T2{Y: 7}} of TestAnonymousFields8 and of the
\* same struct with toarray
Ptr8Targets ==
    {Fresh("T8"), Fresh("T8A"),
     PtrV("*T8", StructV("T8", <<PtrV("*t1", Zero("t1")), Zero("*U2")>>)),
     PtrV("*T8", StructV("T8", <<Zero("*t1"),
                                 PtrV("*U2", StructV("U2", <<Zero("int"), IntV("int", FALSE, <<7>>)>>))>>)),
     PtrV("*T8A", StructV("T8A", <<Zero("struct{}"), PtrV("*t1", Zero("t1")), Zero("*U2")>>))}

DecodeCase(item, target, opts) ==
    [item |-> item, target |-> target, opts |-> opts, tags |-> <<>>]

\* TagSet.Add(TagOptions{DecTag: decTag}, contentType, num...)
TagItem(contentType, num, decTag) == [contentType |-> contentType, num |-> num, decTag |-> decTag]

\* the tag chain num around w, outermost first
RECURSIVE Tagged(_, _)
Tagged(num, w) == IF num = <<>> THEN w ELSE GV("tag", 0, num[1], <<Tagged(Tail(num), w)>>)

TagChains ==
    {<<>>, <<<<100>>>>, <<<<101>>>>, <<<<102>>>>, <<<<100>>, <<101>>>>, <<<<100>>, <<102>>>>,
     <<<<101>>, <<100>>>>, <<<<100>>, <<101>>, <<102>>>>}

\* items in tag chains, alone and as the element of an array
TaggedItems ==
    LET inner == {Tagged(num, w) : num \in TagChains, w \in {WUint(5), WText(<<97>>)}}
    IN inner \cup {WArray(FALSE, <<w>>) : w \in inner}

TagSets ==
    {<<TagItem("uint64", <<<<100>>>>, DecTagRequired)>>,
     <<TagItem("uint64", <<<<100>>>>, DecTagOptional),
       TagItem("string", <<<<100>>, <<101>>>>, DecTagRequired)>>,
     <<TagItem("string", <<<<100>>, <<101>>>>, DecTagRequired),
       TagItem("uint64", <<<<102>>>>, DecTagIgnored)>>,
     <<TagItem("uint64", <<<<102>>>>, DecTagIgnored)>>}

\* items handed to an Unmarshaler: of every major type, definite and
\* indefinite, nested, inside tags, null and undefined
UnmarshalerValues ==
    {WUint(5), WNint(299), WText(<<97>>), WBytes(<<1, 2>>), WNull, WUndefined,
     WArray(FALSE, <<WUint(1), WArray(FALSE, <<WUint(2)>>)>>),
     WArray(TRUE, <<WUint(1), WText(<<97>>)>>),
     WMap(FALSE, <<PairV(WText(<<97>>), WUint(1))>>), WMap(TRUE, <<PairV(WUint(1), WNull)>>),
     WTag(100, WUint(5)), WTag(2, WBytes(<<1>>)), WTag(2, WUint(5)), WTag(0, WUint(5)),
     SelfDescribed(WUint(5), 1), SelfDescribed(WNull, 1), SelfDescribed(WTag(2, WUint(5)), 2)}

\* alone, and before an element that follows it in an array
UnmarshalerItems ==
    UnmarshalerValues
    \cup {WArray(indef, <<w, WUint(7)>>) : w \in UnmarshalerValues, indef \in BOOLEAN}

UnmarshalerCases ==
    {DecodeCase(w, Fresh(tn), QuietOptions) :
        w \in UnmarshalerItems, tn \in {"Recorder", "*Recorder", "[]Recorder", "[]*Recorder"}}
    \cup {DecodeCase(w, PtrV("**Recorder", PtrV("*Recorder", Zero("Recorder"))), QuietOptions) :
             w \in UnmarshalerValues}

TagCases ==
    {[item |-> w, target |-> Fresh("any"), opts |-> QuietOptions, tags |-> ts] :
        w \in TaggedItems, ts \in TagSets}

\* items for a struct type that the type resolver reports as invalid
InvalidStructCases ==
    LET m == WMap(FALSE, <<PairV(WUint(1), WUint(2))>>)
    IN {DecodeCase(w, Fresh("KN.T1"), QuietOptions) : w \in {m, WArray(FALSE, <<WUint(1)>>)}}
       \cup {DecodeCase(w, Fresh("[]KN.T1"), QuietOptions) :
               w \in {WArray(FALSE, <<m, WUint(3)>>), WArray(TRUE, <<m>>), WArray(TRUE, <<>>)}}

\* indefinite-length strings: two chunks, no chunk, and a chunk that is not
\* UTF-8 before a chunk that is
ChunkedCases ==
    {DecodeCase(WRaw(b), Fresh(tn), QuietOptions) :
        b \in {<<95, 65, 1, 65, 2, 255>>, <<95, 255>>}, tn \in {"[]byte", "any"}}
    \cup {DecodeCase(WRaw(b), Fresh(tn), QuietOptions) :
            b \in {<<127, 97, 97, 97, 98, 255>>, <<127, 255>>, <<127, 97, 254, 97, 98, 255>>},
            tn \in {"string", "any"}}

\* maps with integer keys for a struct whose fields have the keys 1 and -3:
\* the keys of the fields, their neighbours, and the unsigned integers from
\* 2^63 on, among them 2^64 - 3
KeyAsIntKeys ==
    {WUint(1), WUint(3), WNint(2), WNint(0), WNint(3),
     WUintMag(<<128, 0, 0, 0, 0, 0, 0, 0>>),
     WUintMag(<<255, 255, 255, 255, 255, 255, 255, 253>>),
     WUintMag(<<255, 255, 255, 255, 255, 255, 255, 255>>),
     WNintMag(<<127, 255, 255, 255, 255, 255, 255, 255>>)}

KeyAsIntItems ==
    {WMap(FALSE, <<PairV(k, WUint(5))>>) : k \in KeyAsIntKeys}
    \cup {WMap(indef, <<PairV(k1, WUint(5)), PairV(k2, WUint(6))>>) :
            indef \in BOOLEAN, k1 \in {WUint(1), WNint(2)},
            k2 \in {WUint(1), WNint(2), WUintMag(<<255, 255, 255, 255, 255, 255, 255, 253>>)}}

KeyAsIntCases ==
    {DecodeCase(w, Fresh("TKeyAsInt"), o) : w \in KeyAsIntItems, o \in {QuietOptions, EnforcedOptions}}

\* a Go map that holds "a" and "q" before the call, and the maps with the keys
\* "a" and "z" decoded into it
HeldMap ==
    MapV("map[string]uint8", <<PairV(StrV("string", <<97>>), IntV("uint8", FALSE, <<9>>)),
                               PairV(StrV("string", <<113>>), IntV("uint8", FALSE, <<8>>))>>)

ReusedMapCases ==
    {DecodeCase(w, PtrV("*map[string]uint8", HeldMap), o) :
        w \in GoMapItems, o \in {QuietOptions, EnforcedOptions}}

\* a key twice, one of its values null or undefined
NullValueCases ==
    {DecodeCase(WMap(FALSE, <<PairV(WText(<<97>>), v1), PairV(WText(<<97>>), v2)>>),
                Fresh("map[string]uint8"), QuietOptions) :
        v1 \in {WUint(1), WNull, WUndefined}, v2 \in {WUint(2), WNull, WUndefined}}

DecodeCases ==
    TagCases \cup UnmarshalerCases \cup InvalidStructCases \cup ChunkedCases \cup KeyAsIntCases
    \cup ReusedMapCases \cup NullValueCases
    \cup {DecodeCase(w, Fresh("TS"), o) : w \in MapItems \cup StructKeyItems, o \in AllStructOptions}
    \cup {DecodeCase(w, Fresh("map[string]uint8"), o) : w \in GoMapItems \cup GenericMapItems,
            o \in {QuietOptions, EnforcedOptions}}
    \cup {DecodeCase(w, Fresh("any"), o) :
            w \in KeyedMaps({WText(<<97>>), WText(<<122>>)}) \cup GenericMapItems,
            o \in {QuietOptions, EnforcedOptions}}
    \cup {DecodeCase(w, Fresh(tn), o) : w \in GenericMapItems, tn \in {"map[any]any", "any"},
            o \in {EnforcedOptions, WrapOptions}}
    \cup {DecodeCase(w, Fresh("any"), DefaultMapOptions) : w \in GenericMapItems}
    \cup {DecodeCase(w, Fresh(tn), QuietOptions) : w \in ArrayItems \cup NestedItems,
            tn \in {"[]uint8", "[2]int", "any", "TToArray", "TS"}}
    \cup {DecodeCase(w, Fresh(tn), QuietOptions) : w \in ToArrayItems, tn \in {"TToArray", "*any"}}
    \cup {DecodeCase(w, Fresh(tn), QuietOptions) : w \in ScalarItems,
            tn \in {"int", "uint8", "string", "[]byte", "any", "*int", "*any",
                    "*time.Time", "Tag", "*Tag", "[]int", "map[string]uint8", "TS", "T8"}}
    \cup {DecodeCase(WMap(FALSE, <<PairV(WText(<<88>>), WUint(1)), PairV(WText(<<89>>), WUint(2))>>),
                     Fresh("T8"), QuietOptions)}
    \cup {DecodeCase(w, Fresh(tn), o) : w \in MalformedItems \cup NestedLimitItems \cup OverLimitItems,
            tn \in {"any", "[]int", "TS"}, o \in {QuietOptions, LimitOptions}}
    \cup {DecodeCase(w, t, QuietOptions) : w \in {WUint(5), WRaw(<<130, 1>>)},
            t \in {Nil, IntV("int", FALSE, <<7>>), Zero("*int")}}
    \cup {DecodeCase(w, Fresh(tn), QuietOptions) : w \in BigItems, tn \in {"big.Int", "any"}}
    \* integers into an empty interface, under both policies
    \cup {DecodeCase(w, Fresh("any"), o) : w \in IntItems, o \in {QuietOptions, SignedOptions}}
    \* integers into integer types, the target zero or holding 7
    \cup {DecodeCase(w, t, QuietOptions) : w \in IntItems,
            t \in {Fresh(tn) : tn \in IntTypes}
                   \cup {PtrV(PointerTo(tn), IntV(tn, FALSE, <<7>>)) : tn \in IntTypes}}
    \* items in self-described tags into fresh targets and into a pointer
    \* that points to 7
    \cup {DecodeCase(w, t, QuietOptions) : w \in SelfDescribedItems,
            t \in {Fresh(tn) : tn \in {"int", "*int", "any", "[]int", "string", "TS", "big.Int"}}
                   \cup {PtrV("**int", PtrV("*int", IntV("int", FALSE, <<7>>)))}}
    \* maps and arrays into the structs with embedded pointers
    \cup {DecodeCase(w, t, o) : w \in Ptr8Items, t \in Ptr8Targets,
            o \in {QuietOptions, QuietUnknownOptions}}
    \* maps into the structs with embedded structs
    \cup {DecodeCase(w, Fresh(tn), o) : w \in EmbeddedItems,
            tn \in {"AF1.T", "AF2.T", "AF10.T", "AF11.T", "TF.T", "DF.T"},
            o \in {QuietOptions, QuietUnknownOptions}}

(***************************************************************************)
(* The values handed to Marshal.  Each comes with a second value of the    *)
(* same content: a map with its entries stored in another order, a struct *)
(* with its fields declared in another order, or the value itself.         *)
(***************************************************************************)
Typed(v, tn) == [v |-> v, tn |-> tn]
NoValue == Typed(Nil, "")

IntOf(tn, i) == IntV(tn, i < 0, MagOfInt(IF i < 0 THEN 0 - i ELSE i))

RECURSIVE Reverse(_)
Reverse(q) == IF q = <<>> THEN <<>> ELSE Append(Reverse(Tail(q)), Head(q))

\* the entries one place on, the first one last
Rotate(q) == IF q = <<>> THEN <<>> ELSE Append(Tail(q), Head(q))

\* TestMapSort: the keys in the order the test stores them
MapSortEntries ==
    <<PairV(IntOf("int", 10), BoolV(TRUE)), PairV(IntOf("int", 100), BoolV(TRUE)),
      PairV(IntOf("int", -1), BoolV(TRUE)), PairV(StrV("string", <<122>>), BoolV(TRUE)),
      PairV(StrV("string", <<97, 97>>), BoolV(TRUE)),
      PairV(GV("[1]int", 0, <<>>, <<IntOf("int", 100)>>), BoolV(TRUE)),
      PairV(GV("[1]int", 0, <<>>, <<IntOf("int", -1)>>), BoolV(TRUE)),
      PairV(BoolV(FALSE), BoolV(TRUE))>>

lenFirstSortedCborData ==
    <<168, 10, 245, 32, 245, 244, 245, 24, 100, 245, 97, 122, 245, 129, 32, 245,
      98, 97, 97, 245, 129, 24, 100, 245>>
bytewiseSortedCborData ==
    <<168, 10, 245, 24, 100, 245, 32, 245, 97, 122, 245, 98, 97, 97, 245,
      129, 24, 100, 245, 129, 32, 245, 244, 245>>

\* maps, each in two orders of its entries
MapValues ==
    {<<Typed(MapV(tn, es), tn), Typed(MapV(tn, alt), tn)>> :
       tn \in {"map[any]bool"}, es \in {MapSortEntries, Reverse(MapSortEntries)},
       alt \in {Reverse(MapSortEntries), Rotate(MapSortEntries)}}
    \cup {<<Typed(MapV("map[int]int", es), "map[int]int"),
            Typed(MapV("map[int]int", Reverse(es)), "map[int]int")>> :
            es \in {[j \in 1..k |-> PairV(IntOf("int", j - 1), IntOf("int", j - 1))] : k \in 0..MaxEntries}
                   \cup {<<PairV(IntOf("int", -1), IntOf("int", 300)), PairV(IntOf("int", 24), IntOf("int", -25)),
                           PairV(IntOf("int", 256), IntOf("int", 0))>>}}
    \cup {<<Typed(MapV("map[string]uint8", es), "map[string]uint8"),
            Typed(MapV("map[string]uint8", Rotate(es)), "map[string]uint8")>> :
            es \in {<<PairV(StrV("string", <<98, 98>>), IntOf("uint8", 1)),
                      PairV(StrV("string", <<97>>), IntOf("uint8", 255)),
                      PairV(StrV("string", <<>>), IntOf("uint8", 0))>>}}
    \* keys of different types in an interface-keyed map; 1 as int64 and as
    \* uint64 are two keys of the Go map
    \cup {<<Typed(MapV("map[any]any", es), "map[any]any"),
            Typed(MapV("map[any]any", Reverse(es)), "map[any]any")>> :
            es \in {<<PairV(IntOf("uint64", 1), StrV("string", <<97>>)),
                      PairV(StrV("string", <<97>>), IntOf("uint64", 2))>>,
                    <<PairV(IntOf("int64", 1), StrV("string", <<97>>)),
                      PairV(IntOf("uint64", 1), StrV("string", <<98>>))>>,
                    <<PairV(IntOf("int64", -1), Nil), PairV(BoolV(TRUE), IntOf("int64", 5))>>}}

Same(v, tn) == <<Typed(v, tn), Typed(v, tn)>>

NodeV(i, next) == StructV("Node", <<IntOf("int", i), next>>)

\* TestMarshalUnmarshalStructToArray: T{A, B, T1, *T2}
ToArrayV(a, b, m, t2) ==
    StructV("TToArray", <<Zero("struct{}"), IntOf("int", a), StructV("T1", <<IntOf("int", b)>>),
                          StructV("T1", <<IntOf("int", m)>>), t2>>)

OtherValues ==
    {Same(IntOf(tn, i), tn) : tn \in {"int", "int64"},
                            i \in {0, 1, 23, 24, 255, 256, 65535, 65536, -1, -24, -25, -256, -257}}
    \cup {Same(IntV("uint64", FALSE, Pow2Less1Mag(64)), "uint64"),
          Same(IntV("int64", TRUE, Pow2Mag(63)), "int64"),
          Same(IntV("int64", FALSE, Pow2Less1Mag(63)), "int64"),
          Same(IntOf("uint8", 255), "uint8"),
          \* the widest four-byte argument and the narrowest eight-byte one
          Same(IntV("uint64", FALSE, Pow2Less1Mag(32)), "uint64"),
          Same(IntV("uint64", FALSE, Pow2Mag(32)), "uint64"),
          Same(IntV("int64", TRUE, Pow2Mag(32)), "int64"),
          Same(IntV("int64", TRUE, MagInc(Pow2Mag(32))), "int64"),
          \* lengths that take one and two bytes after the initial byte
          Same(BytesV("[]byte", [i \in 1..24 |-> i]), "[]byte"),
          Same(BytesV("[]byte", [i \in 1..256 |-> i % 256]), "[]byte"),
          Same(StrV("string", <<>>), "string"), Same(StrV("string", <<97, 98>>), "string"),
          Same(Zero("[]byte"), "[]byte"), Same(BytesV("[]byte", <<>>), "[]byte"),
          Same(BytesV("[]byte", <<1, 255>>), "[]byte"),
          Same(Zero("[]int"), "[]int"), Same(SliceV("[]int", <<>>), "[]int"),
          Same(SliceV("[]int", <<IntOf("int", 1), IntOf("int", -300)>>), "[]int"),
          Same(GV("[2]int", 0, <<>>, <<IntOf("int", 1), IntOf("int", 2)>>), "[2]int"),
          Same(Zero("map[int]int"), "map[int]int"),
          Same(Zero("*int"), "*int"), Same(PtrV("*int", IntOf("int", 5)), "*int"),
          Same(Nil, "any"), Same(IntOf("uint64", 1), "any"), Same(IntOf("int64", 1), "any"),
          Same(IntOf("int64", -1), "any"), Same(StrV("string", <<97>>), "any"),
          Same(SliceV("[]any", <<IntOf("uint64", 1), Nil>>), "any"),
          Same(SliceV("[]any", <<IntOf("int", 1)>>), "[]any"),
          Same(NodeV(0, Zero("*Node")), "Node"),
          Same(NodeV(1, PtrV("*Node", NodeV(2, Zero("*Node")))), "Node"),
          Same(NodeV(1, PtrV("*Node", NodeV(0, PtrV("*Node", NodeV(3, Zero("*Node")))))), "Node"),
          Same(Zero("TKeyAsInt"), "TKeyAsInt"),
          Same(StructV("TKeyAsInt", <<IntOf("int", 1), IntOf("int", 2), IntOf("int", 3)>>), "TKeyAsInt"),
          Same(StructV("TKeyAsInt", <<IntOf("int", 0), IntOf("int", -2), IntOf("int", 0)>>), "TKeyAsInt"),
          Same(ToArrayV(0, 0, 0, Zero("*T2")), "TToArray"),
          Same(ToArrayV(24, 1, 2, PtrV("*T2", StructV("T2", <<IntOf("int", 3), IntOf("int", 4)>>))),
               "TToArray"),
          Same(ToArrayV(24, 1, 2, Zero("*T2")), "TToArray"),
          Same(ToArrayV(0, 0, 0, PtrV("*T2", Zero("T2"))), "TToArray")}
    \* TestStructSort: the same fields declared in two orders
    \cup {<<Typed(StructV("TSort", <<BoolV(a), BoolV(b), BoolV(c), BoolV(d), BoolV(e)>>), "TSort"),
            Typed(StructV("TSortR", <<BoolV(e), BoolV(d), BoolV(c), BoolV(b), BoolV(a)>>), "TSortR")>> :
            a \in BOOLEAN, b \in {FALSE}, c \in BOOLEAN, d \in {FALSE}, e \in BOOLEAN}

\* TestMarshalPosBigInt, TestMarshalNegBigInt: big integers on both sides
\* of -2^64, -2^63, 0 and 2^64
BigInts ==
    {IntV("big.Int", neg, m) :
       neg \in BOOLEAN,
       m \in {<<>>, <<1>>, <<3, 232>>, Pow2Mag(63), MagInc(Pow2Mag(63)), Pow2Less1Mag(64),
              Pow2Mag(64), MagInc(Pow2Mag(64))}}

\* TestAnonymousFields1, 2, 10, 11, TestTaggedField, TestDuplicatedFields:
\* the values of the tests, and the zero values of their types
AF1V(a, b, c, d) ==
    <<StructV("AF1.T1", <<IntOf("int", a), IntOf("int", b)>>),
      StructV("AF1.T2", <<IntOf("int", c), IntOf("int", d)>>)>>

EmbeddedValues ==
    {Typed(StructV("AF1.T", AF1V(1, 2, 3, 4)), "AF1.T"),
     Typed(StructV("AF2.T", AF1V(1, 2, 3, 4) \o <<IntOf("int", 5), IntOf("int", 6)>>), "AF2.T"),
     Typed(StructV("AF10.T",
                   <<StructV("AF10.t1", <<IntOf("int", 1), StructV("AF10.t3", <<IntOf("int", 2)>>)>>),
                     StructV("AF10.t2", <<IntOf("int", 3), StructV("AF10.t3", <<IntOf("int", 4)>>)>>)>>),
           "AF10.T"),
     Typed(StructV("AF11.T",
                   <<StructV("AF11.t1", <<IntOf("int", 1), StructV("AF11.t2", <<IntOf("int", 2)>>)>>),
                     StructV("AF11.t2", <<IntOf("int", 3)>>)>>),
           "AF11.T"),
     Typed(StructV("TF.T", <<StructV("TF.T1", <<StrV("string", <<84, 49>>)>>),
                             StructV("TF.T2", <<StrV("string", <<84, 50>>)>>)>>),
           "TF.T"),
     Typed(StructV("DF.T", <<StructV("TF.T1", <<StrV("string", <<84, 49>>)>>),
                             StructV("DF.T2", <<StrV("string", <<84, 50>>)>>),
                             StructV("DF.T4", <<StructV("TF.T1", <<StrV("string", <<110, 49>>)>>),
                                                StructV("TF.T2", <<StrV("string", <<110, 51>>)>>)>>)>>),
           "DF.T")}
    \cup {Typed(Zero(tn), tn) : tn \in {"AF1.T", "AF2.T", "AF10.T", "AF11.T", "TF.T", "DF.T"}}

EncodeCases ==
    {[src |-> p[1], alt |-> p[2], em |-> encMode(sort)] :
       p \in MapValues \cup OtherValues, sort \in {SortNone, SortLengthFirst, SortBytewiseLexical}}
    \cup {[src |-> Typed(v, "big.Int"), alt |-> Typed(v, "big.Int"),
           em |-> [encMode(SortNone) EXCEPT !.bigIntConvert = c]] :
            v \in BigInts, c \in {BigIntConvertShortest, BigIntConvertNone}}
    \cup {[src |-> p, alt |-> p, em |-> encMode(sort)] :
            p \in EmbeddedValues, sort \in {SortNone, SortBytewiseLexical}}

\* what a target is decoded into after n calls: null, undefined or a
\* truncated array first, an integer after that
AgainItems(n) == IF n = 1 THEN {WNull, WUndefined, WRaw(<<130, 1>>)} ELSE {WUint(1)}

(***************************************************************************)
(* The calls.  A value is marshalled and the bytes are unmarshalled into a *)
(* fresh target of its type, or given bytes are unmarshalled into a        *)
(* target; a target that a call has filled is decoded into again.          *)
(*   pc      "marshal", "ready" (data is there, to be decoded), "done"     *)
(*   src     the value Marshal is called with, alt the one of the same     *)
(*           content, em the encoding mode                                 *)
(*   data    the bytes, altData the bytes alt encoded to                   *)
(*   item    the item that data is, when it was written as one             *)
(*   opts    the DecOptions of the decoding mode                           *)
(*   tags    the TagSet of the decoding mode, <<>> for a mode without one  *)
(*   target  the v of Unmarshal(data, v); before its value before the call *)
(*   res     the error of the call, the cursor after it, and whether       *)
(*           parseToValue was entered                                      *)
(*   calls   the number of calls of Unmarshal on target                    *)
(* The registry and the modes built over it, for the goroutines that       *)
(* register, build modes and decode at the same time:                      *)
(*   set     the entries of the TagSet the modes are built with            *)
(*   rlocks  the goroutines that hold the read lock of the TagSet          *)
(*   build   the call of DecModeWithTags and the mode it returns, and      *)
(*           whether DecModeWithSharedTags has returned its mode           *)
(*   out     the last call of Unmarshal on one of the two modes            *)
(* The goroutines that call Unmarshal and Valid of one mode at the same    *)
(* time:                                                                   *)
(*   running for each of them the call it is in: its arguments, its        *)
(*           decoder, how far it is and what it returns                    *)
(* The streaming encoder:                                                  *)
(*   enc     the Encoder: the indefinite-length policy of its mode, the    *)
(*           bytes written, the indefinite-length items that are open,     *)
(*           the error of the last call, and the Encoder before that call  *)
(***************************************************************************)
VARIABLES pc, src, alt, em, data, altData, item, opts, tags, target, before, res, calls,
          set, rlocks, build, out, running, enc

callVars == <<pc, src, alt, em, data, altData, item, opts, tags, target, before, res, calls>>

modeVars == <<set, rlocks, build, out>>

vars == <<callVars, modeVars, running, enc>>

NoEncoder == [indefLength |-> "", buf |-> <<>>, indefTypes |-> <<>>, err |-> NoErr,
              call |-> "", was |-> <<>>]

Callers == {"a", "b"}

NoCall == [pc |-> "idle", kind |-> "", data |-> <<>>, v |-> Nil, d |-> Nil, dm |-> Nil,
           err |-> NoErr]

NoBuild == [pc |-> "idle", at |-> {}, seen |-> {}, ts |-> {}, hasTags |-> FALSE, shared |-> FALSE]

NoOut == [by |-> "none", item |-> Nil, r |-> Nil, live |-> {}]

\* no TagSet is shared between goroutines
ModesIdle ==
    /\ set = {} /\ rlocks = {} /\ build = NoBuild /\ out = NoOut
    /\ running = [c \in Callers |-> NoCall]
    /\ enc = NoEncoder

NoResult == [err |-> NoErr, off |-> 1, entered |-> FALSE]

Init ==
    /\ ModesIdle
    /\ before = Nil
    /\ res = NoResult
    /\ calls = 0
    /\ altData = <<>>
    /\ \/ \E c \in DecodeCases :
            /\ pc = "ready"
            /\ src = NoValue /\ alt = NoValue /\ em = encMode(SortNone)
            /\ item = c.item /\ data = wire(c.item)
            /\ opts = c.opts /\ tags = c.tags /\ target = c.target
       \/ \E c \in EncodeCases :
            /\ pc = "marshal"
            /\ src = c.src /\ alt = c.alt /\ em = c.em
            /\ item = WRaw(<<>>) /\ data = <<>>
            /\ opts = QuietOptions /\ tags = <<>> /\ target = Fresh(c.src.tn)

\* data, err := em.Marshal(src)
MarshalCall ==
    /\ pc = "marshal"
    /\ data' = Marshal(em, src.v, src.tn)
    /\ altData' = Marshal(em, alt.v, alt.tn)
    /\ item' = WRaw(data')
    /\ pc' = "ready"
    /\ UNCHANGED <<src, alt, em, opts, tags, target, before, res, calls, modeVars, running, enc>>

\* the decoding mode of the calls
dmOf(o, ts) == IF ts = <<>> THEN decMode(o) ELSE decModeWithTags(o, ts)

\* err := dm.Unmarshal(data, target)
UnmarshalCall ==
    /\ pc = "ready"
    /\ \E r \in {Unmarshal(dmOf(opts, tags), data, target)} :
         /\ target' = r.v
         /\ res' = [err |-> r.err, off |-> r.d.off, entered |-> r.entered]
    /\ before' = target
    /\ calls' = calls + 1
    /\ pc' = "done"
    /\ UNCHANGED <<src, alt, em, data, altData, item, opts, tags, modeVars, running, enc>>

\* the caller takes the target of a call without error for the next input
NextInput ==
    /\ pc = "done"
    /\ calls < MaxCalls
    /\ res.err = NoErr
    /\ \E w \in AgainItems(calls) :
         /\ item' = w
         /\ data' = wire(w)
    /\ src' = NoValue /\ alt' = NoValue /\ altData' = <<>>
    /\ pc' = "ready"
    /\ UNCHANGED <<em, opts, tags, target, before, res, calls, modeVars, running, enc>>

Next == MarshalCall \/ UnmarshalCall \/ NextInput

Spec == Init /\ [][Next]_vars

(***************************************************************************)
(* A TagSet that goroutines register in while modes are built over it and  *)
(* decode.  The TagSet itself (Add, Remove and its lock) is not in         *)
(* decode.go; DecModeWithTags and DecModeWithSharedTags are.               *)
(***************************************************************************)
\* the entries that Add is called with
TagUniverse ==
    <<TagItem("uint64", <<<<100>>>>, DecTagRequired),
      TagItem("uint64", <<<<101>>>>, DecTagOptional),
      TagItem("string", <<<<100>>, <<101>>>>, DecTagRequired),
      TagItem("int64", <<<<102>>>>, DecTagIgnored)>>

\* the data decoded under the modes
RegistryItems == {Tagged(num, WUint(5)) : num \in {<<<<100>>>>, <<<<101>>>>, <<<<102>>>>, <<<<100>>, <<101>>>>}}

\* the entries of S as the registry the decoder reads
SeqOf(S) == SelectSeq(TagUniverse, LAMBDA t : t \in S)

RegistryInit ==
    /\ ModesIdle
    /\ pc = "idle" /\ src = NoValue /\ alt = NoValue /\ em = encMode(SortNone)
    /\ data = <<>> /\ altData = <<>> /\ item = WRaw(<<>>)
    /\ opts = QuietOptions /\ tags = <<>>
    /\ target = Nil /\ before = Nil /\ res = NoResult /\ calls = 0

\* tags.Add(opts, contentType, num...): under the write lock; a type or a
\* chain that is registered is not registered again
Add ==
    /\ rlocks = {}
    /\ \E i \in 1..Len(TagUniverse) :
         /\ \A t \in set : t.contentType # TagUniverse[i].contentType /\ t.num # TagUniverse[i].num
         /\ set' = set \cup {TagUniverse[i]}
    /\ UNCHANGED <<callVars, rlocks, build, out, running, enc>>

\* tags.Remove(contentType): under the write lock
Remove ==
    /\ rlocks = {}
    /\ \E t \in set : set' = set \ {t}
    /\ UNCHANGED <<callVars, rlocks, build, out, running, enc>>

\* a range that copies every entry it meets
BuildCopyAll ==
    /\ build.pc = "range"
    /\ \E t \in set \ build.seen :
         build' = [build EXCEPT !.seen = @ \cup {t}, !.ts = @ \cup {t}]
    /\ UNCHANGED <<callVars, set, rlocks, out, running, enc>>

\* opts.DecModeWithTags(tags) up to syncTags.RLock(): opts do not forbid
\* tags and decMode() accepts them
BuildRLock ==
    /\ build.pc = "idle"
    /\ opts.TagsMd # TagsForbidden /\ validDecOptions(opts)
    /\ rlocks' = rlocks \cup {"DecModeWithTags"}
    /\ build' = [build EXCEPT !.pc = "range", !.at = set, !.seen = {}, !.ts = {}]
    /\ UNCHANGED <<callVars, set, out, running, enc>>

\* one entry of "for contentType, tag := range syncTags.t"
BuildCopy ==
    /\ build.pc = "range"
    /\ \E t \in set \ build.seen :
         build' = [build EXCEPT !.seen = @ \cup {t},
                                !.ts = IF t.decTag # DecTagIgnored THEN @ \cup {t} ELSE @]
    /\ UNCHANGED <<callVars, set, rlocks, out, running, enc>>

\* syncTags.RUnlock(), "if len(ts) > 0 { dm.tags = ts }", return dm
BuildRUnlock ==
    /\ build.pc = "range"
    /\ set \subseteq build.seen
    /\ rlocks' = rlocks \ {"DecModeWithTags"}
    /\ build' = [build EXCEPT !.pc = "built", !.hasTags = build.ts # {}]
    /\ UNCHANGED <<callVars, set, out, running, enc>>

\* opts.DecModeWithSharedTags(tags): dm.tags = tags
BuildShared ==
    /\ ~build.shared
    /\ opts.TagsMd # TagsForbidden /\ validDecOptions(opts)
    /\ build' = [build EXCEPT !.shared = TRUE]
    /\ UNCHANGED <<callVars, set, rlocks, out, running, enc>>

\* the mode DecModeWithTags has returned
privateMode == [decMode(opts) EXCEPT !.tags = SeqOf(build.ts), !.hasTags = build.hasTags]

\* the mode DecModeWithSharedTags has returned, when the TagSet holds S
sharedMode(S) == [decMode(opts) EXCEPT !.tags = SeqOf(S), !.hasTags = TRUE]

\* err := dm.Unmarshal(data, &v) with the mode of DecModeWithTags
DecodePrivate ==
    /\ build.pc = "built"
    /\ \E w \in RegistryItems :
         out' = [by |-> "private", item |-> w, live |-> set,
                 r |-> Unmarshal(privateMode, wire(w), Fresh("any"))]
    /\ UNCHANGED <<callVars, set, rlocks, build, running, enc>>

\* the same with the mode of DecModeWithSharedTags, in a call during which
\* no goroutine registers
DecodeShared ==
    /\ build.shared
    /\ \E w \in RegistryItems :
         out' = [by |-> "shared", item |-> w, live |-> set,
                 r |-> Unmarshal(sharedMode(set), wire(w), Fresh("any"))]
    /\ UNCHANGED <<callVars, set, rlocks, build, running, enc>>

RegistryNext ==
    \/ Add \/ Remove
    \/ BuildRLock \/ BuildCopy \/ BuildRUnlock \/ BuildShared
    \/ DecodePrivate \/ DecodeShared

RegistrySpec == RegistryInit /\ [][RegistryNext]_vars

(***************************************************************************)
(* Goroutines that call Unmarshal and Valid of one mode at the same time.  *)
(* A call is its steps: the decoder is built, the data is checked, the     *)
(* item is decoded, the call returns.                                      *)
(***************************************************************************)
\* the data of the calls: well-formed and not, with a repeated key, tagged
CallerData ==
    {wire(WUint(5)), wire(WArray(FALSE, <<WUint(1), WText(<<97>>)>>)), <<130, 1>>,
     wire(WMap(FALSE, <<PairV(WText(<<97>>), WUint(1)), PairV(WText(<<97>>), WUint(2))>>)),
     wire(WTag(100, WUint(5)))}

CallerTargets == {Fresh("any"), Fresh("[]int"), Fresh("map[string]uint8"), Nil}

CallersInit ==
    /\ ModesIdle
    /\ pc = "idle" /\ src = NoValue /\ alt = NoValue /\ em = encMode(SortNone)
    /\ data = <<>> /\ altData = <<>> /\ item = WRaw(<<>>)
    /\ opts \in {QuietOptions, EnforcedOptions}
    /\ tags \in {<<>>, <<TagItem("uint64", <<<<100>>>>, DecTagRequired)>>}
    /\ target = Nil /\ before = Nil /\ res = NoResult /\ calls = 0

\* a call that puts its decoder where every call of the mode finds it
CallBeginShared(c) ==
    /\ running[c].pc = "idle"
    /\ \E kind \in {"Unmarshal", "Valid"}, b \in CallerData, v \in CallerTargets :
         /\ kind = "Valid" => v = Nil
         /\ running' = [x \in Callers |->
                          IF x = c
                          THEN [pc |-> "begun", kind |-> kind, data |-> b, v |-> v,
                                d |-> decoder(b, dmOf(opts, tags)), dm |-> dmOf(opts, tags),
                                err |-> NoErr]
                          ELSE [running[x] EXCEPT !.d = decoder(b, dmOf(opts, tags))]]
    /\ UNCHANGED <<callVars, modeVars, enc>>

\* dm.Unmarshal(data, v) and dm.Valid(data): "d := decoder{data: data, dm: dm}"
CallBegin(c) ==
    /\ running[c].pc = "idle"
    /\ \E kind \in {"Unmarshal", "Valid"}, b \in CallerData, v \in CallerTargets :
         /\ kind = "Valid" => v = Nil
         /\ running' = [running EXCEPT ![c] =
                          [pc |-> "begun", kind |-> kind, data |-> b, v |-> v,
                           d |-> decoder(b, dmOf(opts, tags)), dm |-> dmOf(opts, tags),
                           err |-> NoErr]]
    /\ UNCHANGED <<callVars, modeVars, enc>>

\* d.valid() of Valid, and d.value(v) up to "d.off = off": the checks of v,
\* the pass over the data, the offset restored
CallValid(c) ==
    LET r == running[c]
        ofValid(checked) == [r EXCEPT !.pc = "return", !.err = checked.err, !.d = checked.d]
        refused(returned) == [r EXCEPT !.pc = "return", !.err = returned.err]
        ofValue(checked) == IF checked.err # NoErr
                            THEN [r EXCEPT !.pc = "return", !.err = checked.err]
                            ELSE [r EXCEPT !.pc = "checked"]
    IN /\ r.pc = "begun"
       /\ running' = [running EXCEPT ![c] =
            IF r.kind = "Valid" THEN ofValid(valid(r.d))
            ELSE IF r.v.t = "nil" \/ kindOf(r.v.t) # "ptr" \/ r.v.n = 0
            THEN refused(value(r.d, r.v))
            ELSE ofValue(valid(r.d))]
       /\ UNCHANGED <<callVars, modeVars, enc>>

\* d.value(v) from "rv = rv.Elem()" on: d.parseToValue
CallParse(c) ==
    LET r == running[c]
        ofParse(parsed) == [r EXCEPT !.pc = "return", !.err = parsed.err, !.d = parsed.d,
                                     !.v = PtrV(r.v.t, parsed.v)]
    IN /\ r.pc = "checked"
       /\ running' = [running EXCEPT ![c] =
                        ofParse(parseToValue(r.d, r.v.e[1], goType(r.v.t).elem))]
       /\ UNCHANGED <<callVars, modeVars, enc>>

\* the call returns; the goroutine is free for its next call
CallReturn(c) ==
    /\ running[c].pc = "return"
    /\ running' = [running EXCEPT ![c] = NoCall]
    /\ UNCHANGED <<callVars, modeVars, enc>>

CallersNext ==
    \E c \in Callers : CallBegin(c) \/ CallValid(c) \/ CallParse(c) \/ CallReturn(c)

CallersSpec == CallersInit /\ [][CallersNext]_vars

(***************************************************************************)
(* The streaming encoder (its code is not in decode.go): an item of        *)
(* indefinite length is a begin marker, the items written after it and a   *)
(* break marker.                                                           *)
(***************************************************************************)
\* the bytes an Encoder of the model writes at most
MaxWritten == MaxElems + 1

\* the head byte that begins an indefinite-length item of type t
cborStartIndefinite(t) == t + 31

\* a start that does not ask the mode
startIndefiniteAlways(e, t) ==
    [e EXCEPT !.buf = Append(@, cborStartIndefinite(t)), !.indefTypes = Append(@, t),
              !.err = NoErr]

\* enc.startIndefinite(t)
startIndefinite(e, t) ==
    IF e.indefLength = IndefLengthForbidden
    THEN [e EXCEPT !.err = IndefiniteLengthError(t)]
    ELSE [e EXCEPT !.buf = Append(@, cborStartIndefinite(t)), !.indefTypes = Append(@, t),
                   !.err = NoErr]

\* the Encoder before the call, for the properties
Called(name, e) == [e EXCEPT !.call = name, !.was = <<[enc EXCEPT !.was = <<>>]>>]

EncoderInit ==
    /\ set = {} /\ rlocks = {} /\ build = NoBuild /\ out = NoOut
    /\ running = [c \in Callers |-> NoCall]
    /\ \E m \in {IndefLengthAllowed, IndefLengthForbidden} :
         enc = [NoEncoder EXCEPT !.indefLength = m]
    /\ pc = "idle" /\ src = NoValue /\ alt = NoValue /\ em = encMode(SortNone)
    /\ data = <<>> /\ altData = <<>> /\ item = WRaw(<<>>)
    /\ opts = QuietOptions /\ tags = <<>>
    /\ target = Nil /\ before = Nil /\ res = NoResult /\ calls = 0

StartIndefiniteByteString ==
    /\ Len(enc.buf) < MaxWritten
    /\ enc' = Called("StartIndefiniteByteString", startIndefinite(enc, cborTypeByteString))
    /\ UNCHANGED <<callVars, modeVars, running>>

StartIndefiniteTextString ==
    /\ Len(enc.buf) < MaxWritten
    /\ enc' = Called("StartIndefiniteTextString", startIndefinite(enc, cborTypeTextString))
    /\ UNCHANGED <<callVars, modeVars, running>>

StartIndefiniteArray ==
    /\ Len(enc.buf) < MaxWritten
    /\ enc' = Called("StartIndefiniteArray", startIndefinite(enc, cborTypeArray))
    /\ UNCHANGED <<callVars, modeVars, running>>

StartIndefiniteMap ==
    /\ Len(enc.buf) < MaxWritten
    /\ enc' = Called("StartIndefiniteMap", startIndefinite(enc, cborTypeMap))
    /\ UNCHANGED <<callVars, modeVars, running>>

\* enc.Encode(v) of an integer
Encode ==
    /\ Len(enc.buf) < MaxWritten
    /\ \E i \in {1, 2} :
         enc' = Called("Encode", [enc EXCEPT !.buf = @ \o Marshal(em, IntOf("int", i), "int"),
                                             !.err = NoErr])
    /\ UNCHANGED <<callVars, modeVars, running>>

\* enc.EndIndefinite()
EndIndefinite ==
    /\ Len(enc.buf) < MaxWritten
    /\ enc' = Called("EndIndefinite",
                IF enc.indefTypes = <<>>
                THEN [enc EXCEPT !.err = errorsNew("cbor: cannot encode \"break\" code outside indefinite length values")]
                ELSE [enc EXCEPT !.buf = Append(@, 255),
                                 !.indefTypes = SubSeq(@, 1, Len(@) - 1), !.err = NoErr])
    /\ UNCHANGED <<callVars, modeVars, running>>

EncoderNext ==
    \/ StartIndefiniteByteString \/ StartIndefiniteTextString
    \/ StartIndefiniteArray \/ StartIndefiniteMap
    \/ Encode \/ EndIndefinite

EncoderSpec == EncoderInit /\ [][EncoderNext]_vars

(***************************************************************************)
(* The properties.                                                         *)
(***************************************************************************)
\* the error of the well-formedness pass over the data of the call
ValidErr == valid(decoder(data, dmOf(opts, tags))).err

\* v is what Unmarshal accepts: a pointer that is not nil
AcceptedTarget(v) == v.t # "nil" /\ kindOf(v.t) = "ptr" /\ v.n # 0

\* C1: Unmarshal runs the whole well-formedness pass before it materializes
\* anything.  After a call on data on which the pass fails, parseToValue
\* was not entered and the target is exactly what it was before the call;
\* the error is the error of the pass when the target is one Unmarshal
\* accepts (a nil or non-pointer target is refused before the pass, with
\* InvalidUnmarshalError).  When the pass succeeds on an accepted target,
\* parseToValue is entered.
ValidBeforeMaterialization ==
    pc = "done" =>
        IF ValidErr # NoErr
        THEN /\ ~res.entered
             /\ target = before
             /\ IF AcceptedTarget(before) THEN res.err = ValidErr
                ELSE res.err.e = "InvalidUnmarshalError"
        ELSE AcceptedTarget(before) <=> res.entered

\* a target that an earlier call has filled is left as it was by a call on
\* truncated data
ValidBeforeMaterializationWitness ==
    /\ pc = "done" /\ calls = 2
    /\ res.err = ErrUnexpectedEOF /\ ~res.entered
    /\ target = before
    /\ target.e[1] # Zero(goType(target.t).elem)

\* the call has decoded the bytes src was encoded to, into a fresh target
RoundTripDone == pc = "done" /\ src # NoValue /\ calls = 1

RoundTrips == res.err = NoErr /\ DeepEqual(target.e[1], src.v)

\* types with an interface as the value, an element or a key
InterfaceTypes == {"any", "[]any", "map[any]any", "map[any]bool"}

\* the toarray struct of TestMarshalUnmarshalStructToArray with its embedded
\* *T2 nil
NilEmbeddedPointer == src.tn = "TToArray" /\ src.v.e[5].n = 0

\* C2 as stated: decoding the encoded bytes of any value into a fresh
\* target of its type yields a value equal to it.
RoundTripOfEveryValue == RoundTripDone => RoundTrips

\* C2: decoding the bytes a value v was encoded to, into a fresh target of
\* v's type, yields a value equal to v, when v's type holds no interface and
\* v is not a toarray struct with a nil embedded struct pointer; such a
\* struct comes back equal to v except that the pointer is allocated and
\* points to a zero struct.  The values are those of the kinds the claim
\* lists; the structs of structFields, with fields that no name stands
\* for, are not among them.
RoundTrip ==
    RoundTripDone =>
        /\ (src.tn \notin InterfaceTypes \cup DeclaredTypes /\ ~NilEmbeddedPointer) => RoundTrips
        /\ NilEmbeddedPointer =>
              /\ res.err = NoErr
              /\ DeepEqual(target.e[1], [src.v EXCEPT !.e[5] = PtrV("*T2", Zero("T2"))])

\* a list of three structs linked by pointers comes back equal
RoundTripWitness ==
    /\ RoundTripDone /\ RoundTrips
    /\ src.tn = "Node" /\ src.v.e[2].n # 0 /\ src.v.e[2].e[1].e[2].n # 0

RECURSIVE entryKeys(_, _)
\* the encoded keys of the n entries at the cursor, in their order
entryKeys(d, n) ==
    IF n = 0 THEN <<>>
    ELSE LET k == skip(d) IN <<SubSeq(d.data, d.off, k.off - 1)>> \o entryKeys(skip(k), n - 1)

\* the encoded keys of the map that b is the encoding of
KeysIn(b) ==
    LET h == getHead(decoder(b, defaultDecMode)) IN
    IF b # <<>> /\ h.t = cborTypeMap THEN entryKeys(h.d, IntOfMag(h.val)) ELSE <<>>

Encoded == pc # "marshal" /\ src # NoValue

\* C3 as stated: under a sorting mode two values of the same content encode
\* to the same bytes.
DeterministicEncoding == (Encoded /\ em.sort # SortNone) => data = altData

\* C3: under a sorting mode, two maps or structs of the same key/value pairs
\* encode to the same bytes whatever the order of the pairs or the fields,
\* provided no two keys encode to the same bytes.
DeterministicEncodingOfDistinctKeys ==
    (Encoded /\ em.sort # SortNone) =>
        LET ks == KeysIn(data) IN
        (\A i, j \in 1..Len(ks) : ks[i] = ks[j] => i = j) => data = altData

\* the map of TestMapSort, its entries stored in two different orders
DeterministicEncodingWitness ==
    /\ Encoded /\ em.sort # SortNone
    /\ src.tn = "map[any]bool" /\ src.v # alt.v
    /\ Len(KeysIn(data)) = 8
    /\ data = altData

\* a before b in bytes.Compare
BytewiseBefore(a, b) ==
    \/ \E i \in 1..Len(a) : i <= Len(b) /\ a[i] < b[i] /\ \A j \in 1..(i - 1) : a[j] = b[j]
    \/ Len(a) < Len(b) /\ \A j \in 1..Len(a) : a[j] = b[j]

\* C4: the entries of an encoded map or struct are in the order of their
\* encoded keys: under length-first sort a shorter key is before a longer
\* one and keys of one length are in bytewise order; under bytewise sort
\* the keys are in bytewise order.  The map of TestMapSort encodes to the
\* bytes the test expects for each of the two.
SortedKeys ==
    Encoded =>
        LET ks == KeysIn(data) IN
        /\ em.sort = SortLengthFirst =>
              \A i, j \in 1..Len(ks) : i < j =>
                 \/ Len(ks[i]) < Len(ks[j])
                 \/ Len(ks[i]) = Len(ks[j]) /\ (BytewiseBefore(ks[i], ks[j]) \/ ks[i] = ks[j])
        /\ em.sort = SortBytewiseLexical =>
              \A i, j \in 1..Len(ks) : i < j => (BytewiseBefore(ks[i], ks[j]) \/ ks[i] = ks[j])
        /\ src.tn = "map[any]bool" =>
              /\ em.sort = SortLengthFirst => data = lenFirstSortedCborData
              /\ em.sort = SortBytewiseLexical => data = bytewiseSortedCborData

\* the map of TestMapSort, stored in another order than the sorted one,
\* under length-first sort
SortedKeysWitness ==
    /\ Encoded /\ em.sort = SortLengthFirst
    /\ src.tn = "map[any]bool"
    /\ data = lenFirstSortedCborData
    /\ Marshal(encMode(SortNone), src.v, src.tn) # data

Least(S) == CHOOSE x \in S : \A y \in S : x <= y

\* the call was the first on its target, with a well-formed map as the data
MapCall ==
    /\ pc = "done" /\ calls = 1 /\ src = NoValue /\ item.t = "map"
    /\ AcceptedTarget(before) /\ res.entered

\* the type of what the target points to
TargetType == goType(before.t).elem

Keys(w) == [j \in 1..Len(w.e) |-> w.e[j].e[1]]
Values(w) == [j \in 1..Len(w.e) |-> w.e[j].e[2]]

\* the entries of the map w whose key is the key of an earlier entry
RepeatedAt(w) == {j \in 1..Len(w.e) : \E i \in 1..(j - 1) : w.e[i].e[1] = w.e[j].e[1]}

Enforced == opts.DupMapKey = DupMapKeyEnforcedAPF
ErrorOnUnknownField == opts.ExtraReturnErrors = ExtraDecErrorUnknownField

\* the key k is a text string or an unsigned integer that decodes
PlainKey(k) == (k.t = "text" /\ utf8Valid(k.s)) \/ (k.t = "uint" /\ Len(k.s) <= 1)

\* C5: under DupMapKeyEnforcedAPF, decoding a map in which a key (here a
\* text string) occurs twice into a generic map, a typed Go map or a struct
\* returns a DupMapKeyError with that key and the zero-based index of its
\* second occurrence; under DupMapKeyQuiet no DupMapKeyError is returned.
DuplicateKeyRejected ==
    (/\ MapCall /\ RepeatedAt(item) # {} /\ ~ErrorOnUnknownField
     /\ \A j \in 1..Len(item.e) : item.e[j].e[1].t = "text" /\ PlainKey(item.e[j].e[1])
     /\ TargetType \in {"any", "map[any]any", "map[string]uint8", "TS"}) =>
        IF Enforced
        THEN /\ res.err.e = "DupMapKeyError"
             /\ res.err.idx = Least(RepeatedAt(item)) - 1
             /\ res.err.key = StrV("string", item.e[Least(RepeatedAt(item))].e[1].s)
        ELSE res.err.e # "DupMapKeyError"

TSFields == getDecodingStructType("TS").fields

\* the call decoded a map of such keys into the struct TS
StructMapCall == MapCall /\ TargetType = "TS" /\ \A j \in 1..Len(item.e) : PlainKey(item.e[j].e[1])

RECURSIVE matchedFields(_, _)
\* The field each of the first j keys of ks is matched to, 0 for none: the
\* first field not matched by an earlier key whose name is the key, or
\* else the first one whose name is the key but for the case of letters.
matchedFields(ks, j) ==
    IF j = 0 THEN <<>>
    ELSE LET m == matchedFields(ks, j - 1)
             k == ks[j]
             free == {i \in 1..Len(TSFields) : \A q \in 1..(j - 1) : m[q] # i}
             exact == {i \in free :
                         \/ k.t = "text" /\ TSFields[i].name = k.s
                         \/ k.t = "uint" /\ TSFields[i].keyAsInt /\ TSFields[i].nameAsInt = Num(FALSE, k.s)}
             fold == {i \in free : k.t = "text" /\ Len(TSFields[i].name) = Len(k.s)
                                   /\ \A c \in 1..Len(k.s) : foldByte(TSFields[i].name[c]) = foldByte(k.s[c])}
         IN Append(m, IF exact # {} THEN Least(exact) ELSE IF fold # {} THEN Least(fold) ELSE 0)

Matched == matchedFields(Keys(item), Len(item.e))

\* the entry at which the map is given up: the first repeated key under
\* DupMapKeyEnforcedAPF, the first key without a field under
\* ExtraDecErrorUnknownField; one past the last entry when there is none
StopIndex ==
    LET dup == IF Enforced THEN RepeatedAt(item) ELSE {}
        unknown == IF ErrorOnUnknownField THEN {j \in 1..Len(item.e) : Matched[j] = 0} ELSE {}
    IN IF dup \cup unknown = {} THEN Len(item.e) + 1 ELSE Least(dup \cup unknown)

\* the j-th entry holds the integer j
CountingValues == \A j \in 1..Len(item.e) : item.e[j].e[2] = WUint(j)

\* C6: when a map is decoded into a struct, each text key is matched to the
\* first not yet matched field of exactly its name, or else to the first
\* not yet matched field of its name but for case; a field is matched by at
\* most one key.  With the j-th entry holding j, a field ends up holding
\* the j of the one key matched to it before the map is given up, and zero
\* when there is none.
FieldMatching ==
    (StructMapCall /\ CountingValues) =>
        \A i \in 1..Len(TSFields) :
           LET by == {j \in 1..(StopIndex - 1) : Matched[j] = i} IN
           /\ Cardinality(by) <= 1
           /\ target.e[1].e[i] = IF by = {} THEN Zero(TSFields[i].typ)
                                 ELSE IntV(TSFields[i].typ, FALSE, MagOfInt(Least(by)))

\* the keys "a", "a", "A" into fields "a" and "A": the second is matched but
\* for case, the third finds no field left
FieldMatchingWitness ==
    /\ StructMapCall /\ CountingValues /\ ~Enforced /\ ~ErrorOnUnknownField
    /\ Keys(item) = <<WText(<<97>>), WText(<<97>>), WText(<<65>>)>>
    /\ Matched = <<1, 2, 0>>
    /\ target.e[1].e[1] = IntV("int", FALSE, <<1>>)
    /\ target.e[1].e[2] = IntV("int", FALSE, <<2>>)

\* the item w decoded alone into a zero value of type tn
Alone(w, tn) == parseToValue(decoder(wire(w), dmOf(opts, tags)), Zero(tn), tn)

\* the same error but for the struct field it is reported for
SameError(a, b) == a.e = b.e /\ a.cborType = b.cborType /\ a.goType = b.goType /\ a.msg = b.msg

\* the call was the first on its target, with a well-formed array as the data
ArrayCall ==
    /\ pc = "done" /\ calls = 1 /\ src = NoValue /\ item.t = "array"
    /\ AcceptedTarget(before) /\ res.entered

\* the elements of the array that fail to decode alone into type tn
FailingElements(tn) == {j \in 1..Len(item.e) : Alone(item.e[j], tn).err # NoErr}

\* an array into a slice of uint8: the slice has the length of the array, the
\* elements that decode are stored, the error is that of the first failing one
SliceFirstError ==
    LET failing == FailingElements("uint8") IN
    /\ Len(target.e[1].e) = Len(item.e)
    /\ \A j \in 1..Len(item.e) : j \notin failing => target.e[1].e[j] = Alone(item.e[j], "uint8").v
    /\ res.err = IF failing = {} THEN NoErr ELSE Alone(item.e[Least(failing)], "uint8").err

\* an array into an empty interface: an element that fails is left nil
GenericFirstError ==
    LET failing == FailingElements("any") IN
    /\ target.e[1].t = "[]any" /\ Len(target.e[1].e) = Len(item.e)
    /\ \A j \in 1..Len(item.e) :
          target.e[1].e[j] = IF j \in failing THEN Nil ELSE Alone(item.e[j], "any").v
    /\ res.err = IF failing = {} THEN NoErr ELSE Alone(item.e[Least(failing)], "any").err

\* the values stored in the Go map of the target under the text key k
Stored(k) ==
    {target.e[1].e[q].e[2] : q \in {q \in 1..Len(target.e[1].e) : target.e[1].e[q].e[1] = StrV("string", k.s)}}

\* the values the Go map of the target held under the text key k before
\* the call
Held(k) ==
    {before.e[1].e[q].e[2] : q \in {q \in 1..Len(before.e[1].e) : before.e[1].e[q].e[1] = StrV("string", k.s)}}

\* A map of text keys into a map[string]uint8.  An entry is stored when its
\* value decodes; under DupMapKeyEnforcedAPF the map is given up at the
\* first stored entry whose key is already stored, and DupMapKeyError takes
\* the place of an earlier error.
TypedMapFirstError ==
    LET n == Len(item.e)
        ok(j) == Alone(item.e[j].e[2], "uint8").err = NoErr
        failing == {j \in 1..n : ~ok(j)}
        dup == IF Enforced
               THEN {j \in 1..n : ok(j) /\ \E i \in 1..(j - 1) : ok(i) /\ item.e[i].e[1] = item.e[j].e[1]}
               ELSE {}
        stop == IF dup = {} THEN n + 1 ELSE Least(dup)
    IN
    /\ \A j \in 1..n : (j <= stop /\ ok(j)) => Stored(item.e[j].e[1]) # {}
    /\ \A j \in 1..n :
          (/\ j < stop /\ ok(j) /\ item.e[j].e[2] \notin {WNull, WUndefined}
           /\ \A i \in (j + 1)..n : (i <= stop /\ ok(i)) => item.e[i].e[1] # item.e[j].e[1])
          => Stored(item.e[j].e[1]) = {Alone(item.e[j].e[2], "uint8").v}
    /\ \A j \in 1..n :
          (j > stop /\ \A i \in 1..stop : ok(i) => item.e[i].e[1] # item.e[j].e[1])
          => Stored(item.e[j].e[1]) = Held(item.e[j].e[1])
    /\ res.err = IF stop <= n THEN DupMapKeyError(StrV("string", item.e[stop].e[1].s), stop - 1)
                 ELSE IF failing = {} THEN NoErr
                 ELSE Alone(item.e[Least(failing)].e[2], "uint8").err

\* the entries of the map, before entry upTo, that are matched to a field
\* and whose value fails to decode into it
FailingFields(upTo) ==
    {j \in 1..(upTo - 1) : Matched[j] # 0 /\ Alone(item.e[j].e[2], TSFields[Matched[j]].typ).err # NoErr}

\* A map into the struct TS.  The entries before the one the map is given up
\* at are stored when their field takes the value; DupMapKeyError and
\* UnknownFieldError take the place of an earlier error.
StructFirstError ==
    LET n == Len(item.e)
        stop == StopIndex
        failing == FailingFields(stop)
    IN
    /\ \A j \in 1..(stop - 1) :
          (Matched[j] # 0 /\ j \notin failing)
          => target.e[1].e[Matched[j]] = Alone(item.e[j].e[2], TSFields[Matched[j]].typ).v
    /\ \A i \in 1..Len(TSFields) :
          (\A j \in 1..(stop - 1) : Matched[j] # i) => target.e[1].e[i] = Zero(TSFields[i].typ)
    /\ IF stop <= n
       THEN /\ res.err.idx = stop - 1
            /\ res.err.e = IF Enforced /\ stop \in RepeatedAt(item) THEN "DupMapKeyError"
                           ELSE "UnknownFieldError"
       ELSE IF failing = {} THEN res.err = NoErr
       ELSE SameError(res.err, Alone(item.e[Least(failing)].e[2], TSFields[Matched[Least(failing)]].typ).err)

TextKeys == \A j \in 1..Len(item.e) : item.e[j].e[1].t = "text" /\ PlainKey(item.e[j].e[1])

\* C7 as stated: when entries of a map fail to decode, the error returned
\* is the error of the first failing entry.
FirstFailingElementReturned ==
    (StructMapCall /\ FailingFields(Len(item.e) + 1) # {}) =>
        LET j == Least(FailingFields(Len(item.e) + 1)) IN
        SameError(res.err, Alone(item.e[j].e[2], TSFields[Matched[j]].typ).err)

\* C7: when elements of an array, map or struct fail to decode, decoding
\* goes on through the remaining elements, every element that decodes is
\* stored, and the error returned is the error of the first failing element;
\* but a DupMapKeyError or UnknownFieldError gives the map up at once, no
\* later entry is stored, and it is returned in place of any earlier error.
FirstErrorWins ==
    /\ (ArrayCall /\ TargetType = "[]uint8") => SliceFirstError
    /\ (ArrayCall /\ TargetType = "any") => GenericFirstError
    /\ (MapCall /\ TargetType = "map[string]uint8" /\ TextKeys) => TypedMapFirstError
    /\ StructMapCall => StructFirstError

\* an array whose first and third elements fail with different errors: the
\* second is stored and the error is that of the first
FirstErrorWinsWitness ==
    /\ ArrayCall /\ TargetType = "[]uint8"
    /\ FailingElements("uint8") = {1, 3}
    /\ target.e[1].e[2] = IntV("uint8", FALSE, <<2>>)
    /\ res.err = Alone(item.e[1], "uint8").err
    /\ res.err # Alone(item.e[3], "uint8").err

\* the entries of the map whose key finds no field left to match
Unmatched == {j \in 1..Len(item.e) : Matched[j] = 0}

\* the field i has a name that is the text key k, exactly or but for case
Named(i, k) ==
    /\ Len(TSFields[i].name) = Len(k.s)
    /\ \A c \in 1..Len(k.s) : foldByte(TSFields[i].name[c]) = foldByte(k.s[c])

NullCall ==
    /\ pc = "done" /\ src = NoValue /\ item \in {WNull, WUndefined}
    /\ AcceptedTarget(before) /\ res.entered

ToArrayFields == getDecodingStructType("TToArray").fields

\* C10: an array, definite or indefinite, whose number of elements is not
\* the number of fields of the toarray struct it is decoded into gives
\* UnmarshalTypeError, sets no field, and leaves the cursor past the whole
\* array; an array into a struct without toarray and a map into a toarray
\* struct give UnmarshalTypeError as well.
ToArrayCount ==
    /\ (ArrayCall /\ TargetType = "TToArray") =>
          IF Len(item.e) # Len(ToArrayFields)
          THEN /\ res.err.e = "UnmarshalTypeError" /\ res.err.cborType = "array"
               /\ target = before
               /\ res.off = Len(data) + 1
          ELSE res.err.cborType # "array"
    /\ (ArrayCall /\ TargetType = "TS") =>
          /\ res.err.e = "UnmarshalTypeError" /\ res.err.cborType = "array"
          /\ target = before
    /\ (MapCall /\ TargetType = "TToArray") =>
          /\ res.err.e = "UnmarshalTypeError" /\ res.err.cborType = "map"
          /\ target = before

\* an indefinite-length array of three integers into the struct of five
\* fields
ToArrayCountWitness ==
    /\ ArrayCall /\ TargetType = "TToArray"
    /\ item.n = 1 /\ Len(item.e) = 3 /\ \A j \in 1..3 : item.e[j] = WUint(j)
    /\ res.err.e = "UnmarshalTypeError"
    /\ target = before
    /\ res.off = Len(data) + 1


\* the head that the encoding of src starts with: its type and its argument
HasHead ==
    /\ pc # "marshal" /\ src # NoValue
    /\ \/ kindOf(src.tn) \in {"int", "uint", "string"}
       \/ kindOf(src.tn) \in {"slice", "map"} /\ src.v.n # 0
       \/ kindOf(src.tn) = "array"

HeadType ==
    CASE kindOf(src.tn) \in {"int", "uint"} ->
           IF src.v.n = 1 THEN cborTypeNegativeInt ELSE cborTypePositiveInt
      [] kindOf(src.tn) = "string" -> cborTypeTextString
      [] kindOf(src.tn) = "map" -> cborTypeMap
      [] src.tn = "[]byte" -> cborTypeByteString
      [] OTHER -> cborTypeArray

HeadArg ==
    CASE kindOf(src.tn) \in {"int", "uint"} -> IF src.v.n = 1 THEN MagDec(src.v.s) ELSE src.v.s
      [] kindOf(src.tn) = "string" -> MagOfInt(Len(src.v.s))
      [] OTHER -> MagOfInt(Len(src.v.e))

\* the number of bytes that must follow the initial byte to hold n
ShortestArg(n) ==
    CASE MagLE(n, MagOfInt(23))     -> 0
      [] MagLE(n, MagOfInt(255))    -> 1
      [] MagLE(n, MagOfInt(65535))  -> 2
      [] MagLE(n, Pow2Less1Mag(32)) -> 4
      [] OTHER                      -> 8

\* the additional information that announces k bytes
InfoOf(n, k) == CASE k = 0 -> IntOfMag(n) [] k = 1 -> 24 [] k = 2 -> 25 [] k = 4 -> 26 [] OTHER -> 27

\* C11: every integer and every length is encoded with the shortest head
\* that holds it: n <= 23 in the initial byte, n <= 255 in one byte after
\* it, n <= 65535 in two, n <= 2^32-1 in four, eight otherwise (23 is 17,
\* 24 is 18 18, 256 is 19 01 00, 65536 is 1a 00 01 00 00), and getHead reads
\* the same n back from each of these forms and stops right after the head.
ShortestHead ==
    HasHead =>
        /\ Len(data) >= 1 + ShortestArg(HeadArg)
        /\ data[1] = HeadType + InfoOf(HeadArg, ShortestArg(HeadArg))
        /\ ShortestArg(HeadArg) > 0 =>
              SubSeq(data, 2, 1 + ShortestArg(HeadArg)) = Pad(HeadArg, ShortestArg(HeadArg))
        /\ getHead(decoder(data, defaultDecMode)).t = HeadType
        /\ getHead(decoder(data, defaultDecMode)).val = HeadArg
        /\ getHead(decoder(data, defaultDecMode)).d.off = 2 + ShortestArg(HeadArg)
        /\ src = Typed(IntOf("int", 23), "int") => data = <<23>>
        /\ src = Typed(IntOf("int", 24), "int") => data = <<24, 24>>
        /\ src = Typed(IntOf("int", 256), "int") => data = <<25, 1, 0>>
        /\ src = Typed(IntOf("int", 65536), "int") => data = <<26, 0, 1, 0, 0>>

\* 2^32 has been encoded in nine bytes and decoded again
ShortestHeadWitness ==
    /\ pc = "done" /\ HasHead /\ res.err = NoErr
    /\ src.v = IntV("uint64", FALSE, Pow2Mag(32))
    /\ data = <<27, 0, 0, 0, 1, 0, 0, 0, 0>>
    /\ target.e[1] = src.v

\* a call that decoded a CBOR integer into a Go integer
IntCall ==
    /\ pc = "done" /\ item.t \in {"uint", "nint"}
    /\ AcceptedTarget(before) /\ kindOf(goType(before.t).elem) \in {"int", "uint"}

\* the integer that the item is: n, or -1 - n
IntOfItem == IF item.t = "nint" THEN Num(TRUE, MagInc(item.s)) ELSE Num(FALSE, item.s)

\* type ty holds x: -2^(bits-1) <= x < 2^(bits-1), or 0 <= x < 2^bits
Representable(ty, x) ==
    IF ty.kind = "int"
    THEN IF x.neg THEN MagLE(x.mag, Pow2Mag(ty.bits - 1)) ELSE MagLT(x.mag, Pow2Mag(ty.bits - 1))
    ELSE ~x.neg /\ MagLT(x.mag, Pow2Mag(ty.bits))

\* C12: decoding a CBOR unsigned integer n, or a negative integer -1-n,
\* into a Go integer stores exactly that value when the type can hold it;
\* otherwise the call returns UnmarshalTypeError and the target is what it
\* was.  Nothing is stored wrapped or truncated, and a negative integer
\* into an unsigned type is an error.
IntegerDecoding ==
    IntCall =>
        IF Representable(goType(goType(before.t).elem), IntOfItem)
        THEN /\ res.err = NoErr
             /\ target.e[1] = IntV(goType(before.t).elem, IntOfItem.neg, IntOfItem.mag)
        ELSE /\ res.err.e = "UnmarshalTypeError"
             /\ target = before

\* -2^63 is stored in an int64 that held 7
IntegerDecodingWitness ==
    /\ IntCall /\ res.err = NoErr
    /\ before = PtrV("*int64", IntV("int64", FALSE, <<7>>))
    /\ item = WNintMag(Pow2Less1Mag(63))
    /\ target.e[1] = IntV("int64", TRUE, Pow2Mag(63))

\* a call that decoded a CBOR integer into an empty interface
AnyIntCall == pc = "done" /\ item.t \in {"uint", "nint"} /\ before = Fresh("any")

\* C13: into an empty interface, a CBOR unsigned integer n becomes uint64 n
\* under IntDecConvertNone; under IntDecConvertSigned it becomes int64 n
\* when n <= 2^63-1 and gives UnmarshalTypeError otherwise.  A CBOR negative
\* integer -1-n becomes int64 -1-n when n <= 2^63-1 and the big integer
\* -1-n otherwise, under both policies.
UntypedIntegers ==
    AnyIntCall =>
        IF item.t = "uint"
        THEN IF opts.IntDec = IntDecConvertNone
             THEN res.err = NoErr /\ target.e[1] = IntV("uint64", FALSE, item.s)
             ELSE IF MagLT(item.s, Pow2Mag(63))
                  THEN res.err = NoErr /\ target.e[1] = IntV("int64", FALSE, item.s)
                  ELSE res.err.e = "UnmarshalTypeError" /\ res.err.goType = "int64"
        ELSE /\ res.err = NoErr
             /\ target.e[1] = IntV(IF MagLT(item.s, Pow2Mag(63)) THEN "int64" ELSE "big.Int",
                                   TRUE, MagInc(item.s))

\* 2^63 is refused under IntDecConvertSigned
UntypedIntegersWitness ==
    /\ AnyIntCall /\ opts.IntDec = IntDecConvertSigned
    /\ item = WUintMag(Pow2Mag(63))
    /\ res.err.e = "UnmarshalTypeError" /\ target = before

\* a big integer has been encoded
BigIntEncoded == pc # "marshal" /\ src # NoValue /\ src.tn = "big.Int"

\* -2^64 <= v <= 2^64 - 1
NativeRange(v) == IF v.n = 1 THEN MagLE(v.s, Pow2Mag(64)) ELSE MagLT(v.s, Pow2Mag(64))

\* v as a CBOR integer, and as tag 2 or 3 over the bytes of v or of -1 - v
NativeForm(v) == IF v.n = 1 THEN wire(WNintMag(MagDec(v.s))) ELSE wire(WUintMag(v.s))
TagForm(v) == <<IF v.n = 1 THEN 195 ELSE 194>> \o wire(WBytes(IF v.n = 1 THEN MagDec(v.s) ELSE v.s))

\* tag 2 or tag 3 over a byte string has been decoded into a big.Int or an
\* empty interface
BigIntDecoded ==
    /\ pc = "done" /\ item.t = "tag" /\ item.s \in {<<2>>, <<3>>} /\ item.e[1].t = "bytes"
    /\ before \in {Fresh("big.Int"), Fresh("any")}

\* C14: under BigIntConvertShortest (the default) a big integer v is encoded
\* as a CBOR unsigned integer when 0 <= v <= 2^64-1, as a CBOR negative
\* integer when -2^64 <= v < 0, and as tag 2 or 3 over the shortest
\* big-endian bytes outside that range; under BigIntConvertNone always as tag
\* 2 (bytes of v) or tag 3 (bytes of -1-v).  Decoding tag 2 or tag 3 over
\* the bytes b gives b and -1-b.
BigIntegers ==
    /\ BigIntEncoded =>
         /\ data = IF em.bigIntConvert = BigIntConvertShortest /\ NativeRange(src.v)
                   THEN NativeForm(src.v) ELSE TagForm(src.v)
         /\ src.v = IntV("big.Int", FALSE, <<3, 232>>) =>
              data = IF em.bigIntConvert = BigIntConvertShortest
                     THEN <<25, 3, 232>> ELSE <<194, 66, 3, 232>>
         /\ src.v = IntV("big.Int", FALSE, <<>>) =>
              data = IF em.bigIntConvert = BigIntConvertShortest THEN <<0>> ELSE <<194, 64>>
         /\ src.v = IntV("big.Int", FALSE, Pow2Mag(64)) =>
              data = <<194, 73, 1, 0, 0, 0, 0, 0, 0, 0, 0>>
         /\ src.v = IntV("big.Int", TRUE, Pow2Mag(64)) =>
              data = IF em.bigIntConvert = BigIntConvertShortest
                     THEN <<59, 255, 255, 255, 255, 255, 255, 255, 255>>
                     ELSE <<195, 72, 255, 255, 255, 255, 255, 255, 255, 255>>
         /\ src.v = IntV("big.Int", TRUE, MagInc(Pow2Mag(64))) =>
              data = <<195, 73, 1, 0, 0, 0, 0, 0, 0, 0, 0>>
    /\ BigIntDecoded =>
         /\ res.err = NoErr
         /\ target.e[1] = IntV("big.Int", item.s = <<3>>,
                               IF item.s = <<3>> THEN MagInc(MagNorm(item.e[1].s))
                               ELSE MagNorm(item.e[1].s))

\* -2^64 has been encoded as tag 3 over eight bytes and decoded again
BigIntegersWitness ==
    /\ pc = "done" /\ BigIntEncoded /\ em.bigIntConvert = BigIntConvertNone
    /\ src.v = IntV("big.Int", TRUE, Pow2Mag(64))
    /\ data[1] = 195
    /\ res.err = NoErr /\ target.e[1] = src.v

(***************************************************************************)
(* Field resolution.                                                       *)
(***************************************************************************)
\* a struct with embedded structs was marshalled
EmbeddedEncoded == pc # "marshal" /\ src # NoValue /\ src.tn \in DeclaredTypes

\* no entry without a field has ended the decoding of the map
NotEnded == res.err.e # "UnknownFieldError"

\* a map was decoded into a fresh struct with embedded structs
EmbeddedDecoded ==
    /\ pc = "done" /\ calls = 1 /\ src = NoValue /\ item \in EmbeddedItems
    /\ before.t # "nil" /\ TargetType \in DeclaredTypes

\* every exported field that the type or a struct embedded in it declares
Occurrences(tn) == appendFields(tn, <<>>, 1)

\* the occurrences of the name of occ[j], and those at the least depth
SameName(occ, j) == {k \in 1..Len(occ) : occ[k].name = occ[j].name}
Shallowest(occ, j) ==
    {k \in SameName(occ, j) : \A m \in SameName(occ, j) : Len(occ[k].idx) <= Len(occ[m].idx)}
TaggedAmong(occ, S) == {k \in S : occ[k].tagged}

\* the entries of the encoded map, decoded as the pairs of a map[any]any
EncodedEntries == Unmarshal(decMode(QuietOptions), data, Fresh("any")).v.e[1].e

\* the values the encoded map has for a name
EncodedFor(name) ==
    {j \in 1..Len(EncodedEntries) : EncodedEntries[j].e[1] = StrV("string", name)}

\* the encoded map has one entry for the name, with the content of the field f
EncodesField(name, f) ==
    /\ Cardinality(EncodedFor(name)) = 1
    /\ \A j \in EncodedFor(name) :
         EncodedEntries[j].e[2].n = f.n /\ EncodedEntries[j].e[2].s = f.s

\* the entries of the decoded map for a name
ItemFor(name) == {j \in 1..Len(item.e) : item.e[j].e[1] = WText(name)}

\* the entries of the decoded map for a name that hold an item of the
\* field's type
FittingFor(name, typ) ==
    {j \in ItemFor(name) : \/ item.e[j].e[2].t = "uint" /\ typ = "int"
                           \/ item.e[j].e[2].t = "text" /\ typ = "string"}

\* the fields at the index paths of the occurrences S keep their zero values
Untouched(tn, occ, S) ==
    \A k \in S : fieldAt(target.e[1], tn, occ[k].idx) = Zero(occ[k].typ)

\* C15: of the fields of one name at several depths of embedding, the one
\* at the least depth is encoded and decoded; when two or more fields
\* without a tag have the name at that depth, no field is: the encoded map
\* has no entry for the name, and an entry of a decoded map for it sets no
\* field.  (Decoding with ExtraDecErrorUnknownField ends at the first entry
\* without a field.)
ShallowestField ==
    /\ EmbeddedEncoded =>
         \A j \in 1..Len(Occurrences(src.tn)) :
           LET occ == Occurrences(src.tn)
               least == Shallowest(occ, j)
           IN /\ least = {j} => EncodesField(occ[j].name, fieldAt(src.v, src.tn, occ[j].idx))
              /\ (Cardinality(least) >= 2 /\ TaggedAmong(occ, least) = {}) =>
                    EncodedFor(occ[j].name) = {}
    /\ EmbeddedDecoded =>
         \A j \in 1..Len(Occurrences(TargetType)) :
           LET occ == Occurrences(TargetType)
               least == Shallowest(occ, j)
               name == occ[j].name
           IN FittingFor(name, occ[j].typ) # {} =>
                /\ (least = {j} /\ NotEnded) =>
                     /\ \A i \in FittingFor(name, occ[j].typ) :
                          fieldAt(target.e[1], TargetType, occ[j].idx).s = item.e[i].e[2].s
                     /\ Untouched(TargetType, occ, SameName(occ, j) \ {j})
                /\ (Cardinality(least) >= 2 /\ TaggedAmong(occ, least) = {}) =>
                     /\ Untouched(TargetType, occ, SameName(occ, j))
                     /\ ErrorOnUnknownField => res.err.e = "UnknownFieldError"

\* TestAnonymousFields2: X of T itself is encoded, and not the two X of the
\* structs embedded in T
ShallowestFieldWitness ==
    /\ EmbeddedEncoded /\ src.tn = "AF2.T"
    /\ src.v.e[1].e[2] = IntOf("int", 2) /\ src.v.e[2].e[2] = IntOf("int", 4)
    /\ data = <<161, 97, 88, 6>>

\* C16: when exactly one of the fields of a name at the least depth has a
\* tag, it is the only field encoded and decoded for the name; a name that
\* the fields at its least depth leave undecided is not encoded, whether or
\* not a field at a greater depth has a tag.
TagDominance ==
    /\ EmbeddedEncoded =>
         \A j \in 1..Len(Occurrences(src.tn)) :
           LET occ == Occurrences(src.tn)
               least == Shallowest(occ, j)
               deeper == SameName(occ, j) \ least
           IN /\ (Cardinality(least) >= 2 /\ TaggedAmong(occ, least) = {j}) =>
                    EncodesField(occ[j].name, fieldAt(src.v, src.tn, occ[j].idx))
              /\ (Cardinality(least) >= 2 /\ TaggedAmong(occ, least) = {}
                  /\ TaggedAmong(occ, deeper) # {}) => EncodedFor(occ[j].name) = {}
    /\ EmbeddedDecoded =>
         \A j \in 1..Len(Occurrences(TargetType)) :
           LET occ == Occurrences(TargetType)
               least == Shallowest(occ, j)
               name == occ[j].name
           IN (FittingFor(name, occ[j].typ) # {} /\ Cardinality(least) >= 2
               /\ TaggedAmong(occ, least) = {j} /\ NotEnded) =>
                /\ \A i \in FittingFor(name, occ[j].typ) :
                     fieldAt(target.e[1], TargetType, occ[j].idx).s = item.e[i].e[2].s
                /\ Untouched(TargetType, occ, SameName(occ, j) \ {j})

\* TestTaggedField: {"S": "T2"}, the field X of T2 that the tag names S
TagDominanceWitness ==
    /\ EmbeddedEncoded /\ src.tn = "TF.T"
    /\ src.v.e[1].e[1] = StrV("string", <<84, 49>>)
    /\ data = <<161, 97, 83, 98, 84, 50>>

(***************************************************************************)
(* Structs encoded as arrays.                                              *)
(***************************************************************************)
\* the struct of TestMarshalUnmarshalStructToArray was marshalled
ToArrayEncoded == pc # "marshal" /\ src # NoValue /\ src.tn = "TToArray"

\* the item an integer of the struct is encoded as
ItemOfInt(v) == IF v.n = 1 THEN WNintMag(MagDec(v.s)) ELSE WUintMag(v.s)

\* The items of the array for T{A; B T1; T1; *T2}: A, the struct B as a
\* map (without M when M is zero: T1 is not a toarray struct), M of the
\* embedded T1, and N and O of the embedded *T2, null when the pointer is
\* nil.
ToArrayElements(v) ==
    <<ItemOfInt(v.e[2]),
      WMap(FALSE, IF v.e[3].e[1].s = <<>> THEN <<>>
                  ELSE <<PairV(WText(<<77>>), ItemOfInt(v.e[3].e[1]))>>),
      ItemOfInt(v.e[4].e[1]),
      IF v.e[5].n = 0 THEN WNull ELSE ItemOfInt(v.e[5].e[1].e[1]),
      IF v.e[5].n = 0 THEN WNull ELSE ItemOfInt(v.e[5].e[1].e[2])>>

\* C17: a toarray struct is encoded as an array of one element for each of
\* its fields, in the order of their declaration, under every sort mode: a
\* field with omitempty that is empty is an element all the same, and the
\* fields behind a nil embedded pointer are null elements.
ToArrayEncoding ==
    ToArrayEncoded =>
        /\ data[1] = 128 + Len(ToArrayFields)
        /\ data = wire(WArray(FALSE, ToArrayElements(src.v)))

\* TestMarshalUnmarshalStructToArray, T{}: [0, {}, 0, nil, nil] when the
\* keys of maps are sorted
ToArrayEncodingWitness ==
    /\ ToArrayEncoded /\ em.sort = SortBytewiseLexical
    /\ src.v.e[2].s = <<>> /\ src.v.e[5].n = 0
    /\ data = <<133, 0, 160, 0, 246, 246>>

(***************************************************************************)
(* Embedded pointers.  T{*t1; *T2} of TestAnonymousFields8, X behind *t1   *)
(* and Y behind *T2, as a map and, with toarray, as an array of two.       *)
(***************************************************************************)
Ptr8Call ==
    /\ pc = "done" /\ calls = 1 /\ src = NoValue /\ item \in Ptr8Items
    /\ before.t # "nil"
    /\ \/ item.t = "map" /\ TargetType = "T8"
       \/ item.t = "array" /\ TargetType = "T8A"

\* the embedded *t1 and the embedded *T2 of one of the two structs
Behind1(v) == IF v.t = "T8" THEN v.e[1] ELSE v.e[2]
Behind2(v) == IF v.t = "T8" THEN v.e[2] ELSE v.e[3]

\* where the decoded item has its entries or elements for X and for Y
EntriesOfX == IF item.t = "map" THEN ItemFor(<<88>>) ELSE {1}
EntriesOfY == IF item.t = "map" THEN ItemFor(<<89>>) ELSE {2}
EntryValue(j) == IF item.t = "map" THEN item.e[j].e[2] ELSE item.e[j]

\* the entries that an integer field is set from
Setting(S) == {j \in S : EntryValue(j).t = "uint"}

\* the entries that fail: text into an integer field, X when the *t1 that
\* is nil cannot be set
Failing ==
    {j \in EntriesOfX \cup EntriesOfY : EntryValue(j).t = "text"}
    \cup {j \in EntriesOfX : Behind1(before.e[1]).n = 0}

CannotSetEmbedded(err) ==
    /\ err.e = "error" /\ err.goType = "*t1"
    /\ err.msg = "cbor: cannot set embedded pointer to unexported struct: "

SelfDescribedCall ==
    /\ pc = "done" /\ calls = 1 /\ src = NoValue
    /\ item.t = "tag" /\ item.s = selfDescribedCBORTagNum

RECURSIVE Unwrapped(_)
\* the item inside the tags of number 55799
Unwrapped(w) ==
    IF w.t = "tag" /\ w.s = selfDescribedCBORTagNum THEN Unwrapped(w.e[1]) ELSE w

\* the call has left the target and the error that the call r leaves
SameOutcome(r) == target = r.v /\ res.err = r.err

\* C19: an item inside one or more tags of number 55799 is decoded as the
\* item itself is: the target has the same value after the call and the
\* call returns the same error, for typed targets and for an empty
\* interface.
SelfDescribedTransparent ==
    SelfDescribedCall => SameOutcome(Unmarshal(dmOf(opts, tags), wire(Unwrapped(item)), before))

(***************************************************************************)
(* Tagged items and the tag registry.                                      *)
(***************************************************************************)
\* the tagged item of the call: the item, or the element of the array
TaggedItem == IF item.t = "tag" THEN item ELSE item.e[1]

\* a first call has decoded a tagged item, alone or in an array, into an
\* empty interface under a decoding mode with a registry
TagCall ==
    /\ pc = "done" /\ calls = 1 /\ src = NoValue
    /\ dmOf(opts, tags).hasTags
    /\ before = Fresh("any")
    /\ item.t = "tag" \/ (item.t = "array" /\ Len(item.e) = 1 /\ item.e[1].t = "tag")

\* the tag numbers around w, outermost first, and the item inside them
RECURSIVE ChainOf(_)
ChainOf(w) == IF w.t = "tag" THEN <<w.s>> \o ChainOf(w.e[1]) ELSE <<>>

RECURSIVE ContentOf(_)
ContentOf(w) == IF w.t = "tag" THEN ContentOf(w.e[1]) ELSE w

\* the registered chains that begin the chain of the tagged item
RegisteredPrefixes ==
    LET chain == ChainOf(TaggedItem)
        registry == dmOf(opts, tags).tags
    IN {i \in 1..Len(registry) :
          \E k \in 1..Len(chain) : registry[i].num = SubSeq(chain, 1, k)}

\* the registry item of the longest of them
LongestPrefix ==
    LET registry == dmOf(opts, tags).tags
    IN registry[CHOOSE i \in RegisteredPrefixes :
                  \A j \in RegisteredPrefixes : Len(registry[j].num) <= Len(registry[i].num)]

\* what the call has put in the place of the tagged item
DecodedTagged ==
    IF item.t = "tag" THEN target.e[1]
    ELSE IF target.e[1].t = "[]any" /\ Len(target.e[1].e) = 1 THEN target.e[1].e[1]
    ELSE Nil

\* the item inside the tags is one that a value of the type is decoded from
FitsRegistered(tn) ==
    \/ tn = "uint64" /\ ContentOf(TaggedItem).t = "uint"
    \/ tn = "string" /\ ContentOf(TaggedItem).t = "text"

\* the value of the registered type tn that the item inside the tags is
AsRegistered(tn) ==
    IF tn = "uint64" THEN IntV("uint64", FALSE, ContentOf(TaggedItem).s)
    ELSE StrV("string", ContentOf(TaggedItem).s)

\* the content of the tagged item decoded alone under the same mode
TagContent == Unmarshal(dmOf(opts, tags), wire(TaggedItem.e[1]), Fresh("any"))

FrozenRegistry ==
    /\ build.pc = "built" =>
          /\ build.ts = {t \in build.at : t.decTag # DecTagIgnored}
          /\ build.hasTags = (build.ts # {})
    /\ out.by = "private" =>
          out.r = Unmarshal(dmOf(opts, SeqOf(build.at)), wire(out.item), Fresh("any"))
    /\ out.by = "shared" =>
          out.r = Unmarshal([decMode(opts) EXCEPT !.tags = SeqOf(out.live), !.hasTags = TRUE],
                            wire(out.item), Fresh("any"))

\* the mode of DecModeWithTags was built when the TagSet held 100 for
\* uint64, which has since been removed and replaced by 101 for uint64, and
\* still decodes 100(5) as a uint64
FrozenRegistryWitness ==
    /\ build.pc = "built"
    /\ build.at = {TagUniverse[1]}
    /\ set = {TagUniverse[2]}
    /\ out.by = "private" /\ out.item = Tagged(<<<<100>>>>, WUint(5))
    /\ out.r.err = NoErr /\ out.r.v = PtrV("*any", IntV("uint64", FALSE, <<5>>))

(***************************************************************************)
(* Targets with the method UnmarshalCBOR.                                  *)
(***************************************************************************)
\* a first call has decoded an item into a Recorder or a pointer to one, or
\* an array into a slice of either
RecorderCall ==
    /\ pc = "done" /\ calls = 1 /\ src = NoValue /\ res.entered
    /\ \/ before.t \in {"*Recorder", "**Recorder"}
       \/ before.t \in {"*[]Recorder", "*[]*Recorder"} /\ item.t = "array"

\* the target is itself a Recorder or a pointer to one
RecorderAlone == before.t \in {"*Recorder", "**Recorder"}

\* the items that Recorders were decoded from, their type, and the values
\* before and after the call
RecorderType == IF RecorderAlone THEN TargetType ELSE goType(TargetType).elem

RecorderItems == IF RecorderAlone THEN <<item>> ELSE item.e

RecorderBefore == IF RecorderAlone THEN before.e[1] ELSE Zero(RecorderType)

RecorderAfter(j) == IF RecorderAlone THEN target.e[1] ELSE target.e[1].e[j]

\* UnmarshalCBOR has been called on v, once, with the bytes b
CalledOnce(v, b) ==
    IF RecorderType = "Recorder" THEN v = GV("Recorder", 1, b, <<>>)
    ELSE v = PtrV("*Recorder", GV("Recorder", 1, b, <<>>))

\* a tag 0 to 3 whose content is of a type that the tag does not allow
BuiltinMismatch(w) ==
    /\ w.t = "tag"
    /\ \/ w.s = <<>> /\ w.e[1].t # "text"
       \/ w.s = <<1>> /\ w.e[1].t \notin {"uint", "nint"}
       \/ w.s \in {<<2>>, <<3>>} /\ w.e[1].t # "bytes"

\* C22 as stated: every item decoded into a target with UnmarshalCBOR is
\* handed to the method, once, as exactly its bytes, and the cursor is then
\* behind the item (at the end of the data, for the last one).
UnmarshalerEveryItem ==
    RecorderCall =>
      /\ \A j \in 1..Len(RecorderItems) : CalledOnce(RecorderAfter(j), wire(RecorderItems[j]))
      /\ res.off = Len(data) + 1

\* C22: an item decoded into a target with UnmarshalCBOR is handed to the
\* method, once, as exactly the bytes of the item inside its self-described
\* tags, a nil pointer being allocated for it.  The method is not called
\* for null or undefined, outside any tag, into a nil pointer, which stays
\* nil, nor for a tag 0 to 3 with content of the wrong type, for which the
\* call returns an error.  In every case the cursor is left behind the
\* item: the element after it is decoded from its own bytes and the call
\* ends at the end of the data.
UnmarshalerSpan ==
    RecorderCall =>
      /\ \A j \in 1..Len(RecorderItems) :
           CASE RecorderItems[j] \in {WNull, WUndefined} /\ RecorderType = "*Recorder"
                  /\ RecorderBefore.n = 0 ->
                  RecorderAfter(j) = RecorderBefore
             [] BuiltinMismatch(Unwrapped(RecorderItems[j])) ->
                  /\ res.err.e = "error"
                  /\ RecorderAfter(j) = IF RecorderType = "Recorder" \/ RecorderBefore.n # 0
                                        THEN RecorderBefore
                                        ELSE PtrV("*Recorder", Zero("Recorder"))
             [] OTHER -> CalledOnce(RecorderAfter(j), wire(Unwrapped(RecorderItems[j])))
      /\ res.off = Len(data) + 1
      /\ (\A j \in 1..Len(RecorderItems) : ~BuiltinMismatch(Unwrapped(RecorderItems[j])))
            => res.err = NoErr

\* the indefinite-length array [_ {_ 1: null}, 7] has been decoded into a
\* nil []*Recorder: the first Recorder holds the five bytes of the map and
\* the second the byte of 7
UnmarshalerSpanWitness ==
    /\ RecorderCall
    /\ data = <<159, 191, 1, 246, 255, 7, 255>>
    /\ before = Fresh("[]*Recorder")
    /\ target.e[1].e = <<PtrV("*Recorder", GV("Recorder", 1, <<191, 1, 246, 255>>, <<>>)),
                         PtrV("*Recorder", GV("Recorder", 1, <<7>>, <<>>))>>
    /\ res.err = NoErr /\ res.off = 8

(***************************************************************************)
(* Calls of one mode at the same time.                                     *)
(***************************************************************************)
\* the target a call of Unmarshal was handed: v holds the target after the
\* call once the item is decoded
HandedTo(r) == IF r.v.t = "nil" THEN Nil ELSE Fresh(goType(r.v.t).elem)

\* C23: under every interleaving of the steps of calls of Unmarshal and
\* Valid on one mode, a call works on its own decoder over its own data,
\* the mode is the one the call began with, and the call returns the error,
\* and leaves the target, that it returns and leaves when it runs alone.
CallsAlone ==
    \A c \in Callers :
      LET r == running[c] IN
      /\ r.pc # "idle" =>
            /\ r.d.data = r.data
            /\ r.d.dm = r.dm /\ r.dm = dmOf(opts, tags)
      /\ (r.pc = "return" /\ r.kind = "Valid") =>
            r.err = valid(decoder(r.data, dmOf(opts, tags))).err
      /\ (r.pc = "return" /\ r.kind = "Unmarshal") =>
            /\ r.err = Unmarshal(dmOf(opts, tags), r.data, HandedTo(r)).err
            /\ r.v = Unmarshal(dmOf(opts, tags), r.data, HandedTo(r)).v

\* one call has decoded [1, "a"] into a []int and returns its type error
\* while the other stands between the check and the decoding of 100(5)
CallsAloneWitness ==
    /\ running["a"].pc = "return" /\ running["a"].kind = "Unmarshal"
    /\ running["a"].data = <<130, 1, 97, 97>>
    /\ running["a"].v.t = "*[]int" /\ running["a"].err.e = "UnmarshalTypeError"
    /\ running["b"].pc = "checked" /\ running["b"].data = <<216, 100, 5>>

(***************************************************************************)
(* The streaming encoder and the indefinite-length policy.                 *)
(***************************************************************************)
\* the type of item that the last call of the Encoder was to start
StartedType ==
    CASE enc.call = "StartIndefiniteByteString" -> cborTypeByteString
      [] enc.call = "StartIndefiniteTextString" -> cborTypeTextString
      [] enc.call = "StartIndefiniteArray" -> cborTypeArray
      [] enc.call = "StartIndefiniteMap" -> cborTypeMap
      [] OTHER -> 0 - 1

\* C24: a start of an indefinite-length byte string, text string, array or
\* map on an Encoder whose mode forbids indefinite length returns the
\* IndefiniteLengthError of that type, writes nothing and opens nothing; on
\* an Encoder whose mode allows it the start returns no error, writes the
\* begin marker of the type and opens the item.
StartUnderPolicy ==
    StartedType >= 0 =>
      LET was == enc.was[1] IN
      IF enc.indefLength = IndefLengthForbidden
      THEN /\ enc.err.e = "IndefiniteLengthError"
           /\ enc.err.cborType = cborTypeString(StartedType)
           /\ enc.buf = was.buf /\ enc.indefTypes = was.indefTypes
      ELSE /\ enc.err = NoErr
           /\ enc.buf = Append(was.buf, StartedType + 31)
           /\ enc.indefTypes = Append(was.indefTypes, StartedType)

\* an Encoder whose mode forbids indefinite length has written 1 and has then
\* been asked to start a map
StartUnderPolicyWitness ==
    /\ enc.indefLength = IndefLengthForbidden
    /\ enc.call = "StartIndefiniteMap"
    /\ enc.err.e = "IndefiniteLengthError" /\ enc.err.cborType = "map"
    /\ enc.buf = <<1>>

(***************************************************************************)
(* The options of a mode.                                                  *)
(***************************************************************************)
\* C25: the options read back from the mode built from the options of the
\* call are the options of the call, field for field.
OptionsReadBack == decModeDecOptions(dmOf(opts, tags)) = opts

(***************************************************************************)
(* The cursor after a call.                                                *)
(***************************************************************************)
\* C26: when the data of a call is well-formed and the call has decoded it,
\* with an error or without, the cursor is at the end of the one item of
\* the data.
CursorAfterItem ==
    pc = "done" /\ res.entered => res.off = Len(data) + 1

(***************************************************************************)
(* The loops over the items of an indefinite-length item.                  *)
(***************************************************************************)
\* the data of the call is an indefinite-length byte string, text string,
\* array or map
IndefiniteData ==
    data # <<>> /\ data[1] \in {cborTypeByteString + 31, cborTypeTextString + 31,
                                 cborTypeArray + 31, cborTypeMap + 31}

\* C27: a call that decodes an indefinite-length item ends without a panic
\* of an index beyond the target, and with the cursor after the break of
\* the item.
IndefiniteLoopsEnd ==
    pc = "done" /\ res.entered /\ IndefiniteData =>
      /\ res.err.e # "panic"
      /\ data[res.off - 1] = 255 /\ res.off = Len(data) + 1

(***************************************************************************)
(* Integer keys of a map decoded into a struct.                            *)
(***************************************************************************)
\* a first call has decoded a map into a struct with keyasint fields
KeyAsIntCall ==
    pc = "done" /\ res.entered /\ before.t = "*TKeyAsInt" /\ item.t = "map"

KeyAsIntFields == getDecodingStructType("TKeyAsInt").fields

\* the key of entry j of the item is an integer, and its value
IntegerKey(j) == item.e[j].e[1].t \in {"uint", "nint"}

KeyValue(j) ==
    LET k == item.e[j].e[1]
    IN IF k.t = "uint" THEN Num(FALSE, k.s) ELSE Num(TRUE, MagInc(k.s))

\* C28: a field with an integer key is set only when an entry of the map
\* has an integer key of that value, and a DupMapKeyError with an integer
\* key is returned only when two entries of the map have the same integer
\* as key.
IntegerKeysExact ==
    KeyAsIntCall =>
      /\ \A i \in 1..Len(KeyAsIntFields) :
           LET f == KeyAsIntFields[i] IN
           f.keyAsInt /\ target.e[1].e[f.idx[1] + 1] # before.e[1].e[f.idx[1] + 1] =>
             \E j \in 1..Len(item.e) : IntegerKey(j) /\ KeyValue(j) = f.nameAsInt
      /\ res.err.e = "DupMapKeyError" /\ res.err.key.t = "int64" =>
           \E j1, j2 \in 1..Len(item.e) :
              /\ j1 < j2 /\ IntegerKey(j1) /\ IntegerKey(j2)
              /\ KeyValue(j1) = KeyValue(j2)

(***************************************************************************)
(* A map decoded into a Go map that holds entries.                         *)
(***************************************************************************)
\* the call decoded a map with text keys into a Go map that held entries
ReusedMapCall ==
    /\ MapCall /\ TargetType = "map[string]uint8"
    /\ before.e[1].n = 1 /\ before.e[1].e # <<>>
    /\ \A j \in 1..Len(item.e) : item.e[j].e[1].t = "text" /\ PlainKey(item.e[j].e[1])

\* the Go key of the key of entry j, and the entries of a Go map
GoKey(j) == StrV("string", item.e[j].e[1].s)
Entries(m) == {m.e[i] : i \in 1..Len(m.e)}

\* C29: the Go map is reused and keeps the entries whose keys the CBOR map
\* does not have; with DupMapKeyEnforcedAPF a key that the Go map held is
\* overwritten by its first occurrence without error, and the call returns
\* a DupMapKeyError exactly when a key of the CBOR map occurred earlier in
\* it, with the key and the index of the first such entry.
ReusedMapDuplicates ==
    ReusedMapCall /\ Enforced =>
      /\ target.e[1].n = 1
      /\ \A p \in Entries(before.e[1]) :
           (\A j \in 1..Len(item.e) : GoKey(j) # p.e[1]) => p \in Entries(target.e[1])
      /\ IF RepeatedAt(item) = {}
         THEN /\ res.err.e # "DupMapKeyError"
              /\ \A j \in 1..Len(item.e) :
                   item.e[j].e[2].t = "uint" /\ Len(item.e[j].e[2].s) <= 1 =>
                     PairV(GoKey(j), IntV("uint8", FALSE, item.e[j].e[2].s))
                       \in Entries(target.e[1])
         ELSE /\ res.err.e = "DupMapKeyError"
              /\ res.err.idx = Least(RepeatedAt(item)) - 1
              /\ res.err.key = GoKey(Least(RepeatedAt(item)))

(***************************************************************************)
(* A repeated key under DupMapKeyQuiet.                                    *)
(***************************************************************************)
\* the last entry of the map with the key of entry j, and the last one
\* among those whose value decodes into type tn (0 for none)
LastOf(j) == CHOOSE l \in j..Len(item.e) :
                /\ item.e[l].e[1] = item.e[j].e[1]
                /\ \A q \in (l + 1)..Len(item.e) : item.e[q].e[1] # item.e[j].e[1]

Decoding(j, tn) ==
    {l \in 1..Len(item.e) : /\ item.e[l].e[1] = item.e[j].e[1]
                            /\ Alone(item.e[l].e[2], tn).err = NoErr}

LastDecoding(j, tn) ==
    IF Decoding(j, tn) = {} THEN 0
    ELSE CHOOSE l \in Decoding(j, tn) : \A q \in Decoding(j, tn) : q <= l

\* the key of entry j occurs more than once in the map
Repeated(j) == \E i \in 1..Len(item.e) : i # j /\ item.e[i].e[1] = item.e[j].e[1]

\* a map with text keys decoded under DupMapKeyQuiet into a Go map
QuietMapCall ==
    MapCall /\ ~Enforced /\ TargetType = "map[string]uint8" /\ TextKeys

\* a map decoded under DupMapKeyQuiet into the struct TS: the field that the
\* first occurrence of a key is matched to holds what that entry alone
\* leaves in it, whatever occurrences of the key follow
KeepFirst ==
    (StructMapCall /\ ~Enforced /\ ~ErrorOnUnknownField) =>
      \A j \in 1..Len(item.e) :
         (j \notin RepeatedAt(item) /\ Matched[j] # 0) =>
           target.e[1].e[Matched[j]] = Alone(item.e[j].e[2], TSFields[Matched[j]].typ).v

\* C30 as stated: under DupMapKeyQuiet a struct keeps the first occurrence
\* of a key, and the entry of a Go map holds the value of the last
\* occurrence of its key.
KeepFirstKeepLast ==
    /\ KeepFirst
    /\ QuietMapCall =>
         \A j \in 1..Len(item.e) :
            Repeated(j) => Stored(item.e[j].e[1]) = {Alone(item.e[LastOf(j)].e[2], "uint8").v}

\* C30: under DupMapKeyQuiet a struct keeps the first occurrence of a key,
\* and the entry of a Go map holds the value of the last occurrence of its
\* key whose value decodes (and is not null or undefined); a key with no
\* such occurrence gets no entry.
QuietRepeatedKeys ==
    /\ KeepFirst
    /\ QuietMapCall =>
         \A j \in 1..Len(item.e) :
            LET l == LastDecoding(j, "uint8") IN
            Repeated(j) =>
              IF l = 0 THEN Stored(item.e[j].e[1]) = Held(item.e[j].e[1])
              ELSE item.e[l].e[2] \notin {WNull, WUndefined} =>
                     Stored(item.e[j].e[1]) = {Alone(item.e[l].e[2], "uint8").v}

\* the key "a" three times into the struct TS, which has the fields "a" and
\* "A": the field "a" keeps the first value
QuietRepeatedKeysWitness ==
    /\ StructMapCall /\ ~Enforced /\ ~ErrorOnUnknownField
    /\ Keys(item) = <<WText(<<97>>), WText(<<97>>), WText(<<97>>)>> /\ CountingValues
    /\ target.e[1].e[1] = IntV("int", FALSE, <<1>>)
    /\ res.err = NoErr

====
